---- MODULE Spec2Model ----
(***************************************************************************)
(* Knowledge-base ingestion and retrieval of neuralarc-ai/he2               *)
(* (backend/knowledge_base): the text normalizer and the word chunker of    *)
(* DocumentProcessor, the ingestion pipeline and document deletion of       *)
(* DocumentStorageService, the background job of api.py and the similarity  *)
(* search of VectorService.                                                 *)
(*                                                                         *)
(* Text is a sequence of one-character strings.  Each sub-system has its    *)
(* own specification over the shared variables; the variables a             *)
(* specification does not use stay at Idle.                                 *)
(***************************************************************************)
EXTENDS Integers, Sequences, FiniteSets, TLC

VARIABLES cleaner, chunker, jobs, kb, nextId, run, bg, del,
          document_chunks, srch, rel, model, built, loop, callers, doc, upl, lst, svc,
          proc, kws, win

vars == <<cleaner, chunker, jobs, kb, nextId, run, bg, del,
          document_chunks, srch, rel, model, built, loop, callers, doc, upl, lst, svc,
          proc, kws, win>>

purevars == <<cleaner, chunker>>
pipevars == <<jobs, kb, nextId, run, bg, del>>
vecvars == <<document_chunks, srch>>
embvars == <<model, built, loop, callers>>
reqvars == <<lst, svc>>
kbvars == <<proc, kws, win>>
svcvars == <<rel, embvars, doc, upl, reqvars, kbvars>>

Idle == [pc |-> "idle"]

(***************************************************************************)
(* Bounds of the model.                                                    *)
(***************************************************************************)
MaxCleanLen == 5
MaxChunkLen == 7
MaxChunkSize == 5
MaxOverlap == 3
MaxJobs == 1
MaxBgJobs == 3
MaxRows == 2
MaxResults == 2
MaxCallers == 2
MaxBatch == 2
MaxBytes == 3
MaxPages == 3
MaxUploads == 2
MaxEntries == 2
PipeChunkSize == 2
PipeOverlap == 0

CleanChars == {"a", " ", "\n", "\t"}
ChunkChars == {"a", "b", " "}

(***************************************************************************)
(* Python string primitives.                                               *)
(***************************************************************************)
IsWs(c) == c \in {" ", "\n", "\t"}

TextsUpTo(chars, n) == UNION {[1..k -> chars] : k \in 0..n}

Drop(s, n) ==
    IF n <= 0 THEN s
    ELSE IF n >= Len(s) THEN <<>>
    ELSE SubSeq(s, n + 1, Len(s))

Take(s, n) ==
    IF n <= 0 THEN <<>>
    ELSE IF n >= Len(s) THEN s
    ELSE SubSeq(s, 1, n)

\* str.split(sep) for a one-character separator: empty fields are kept
RECURSIVE SplitOn(_, _)
SplitOn(s, sep) ==
    IF \A k \in 1..Len(s) : s[k] # sep
    THEN <<s>>
    ELSE LET k == CHOOSE j \in 1..Len(s) :
                      s[j] = sep /\ \A m \in 1..(j - 1) : s[m] # sep
         IN  <<SubSeq(s, 1, k - 1)>> \o SplitOn(Drop(s, k), sep)

\* str.split() without argument: maximal runs of non-whitespace characters
RECURSIVE SplitWs(_)
SplitWs(s) ==
    IF s = <<>> THEN <<>>
    ELSE IF IsWs(s[1]) THEN SplitWs(Tail(s))
    ELSE LET n == CHOOSE j \in 1..Len(s) :
                      /\ \A m \in 1..j : ~IsWs(s[m])
                      /\ (j = Len(s) \/ IsWs(s[j + 1]))
         IN  <<SubSeq(s, 1, n)>> \o SplitWs(Drop(s, n))

\* sep.join(parts)
RECURSIVE Join(_, _)
Join(parts, sep) ==
    IF parts = <<>> THEN <<>>
    ELSE IF Len(parts) = 1 THEN parts[1]
    ELSE parts[1] \o sep \o Join(Tail(parts), sep)

\* str.strip()
RECURSIVE Strip(_)
Strip(s) ==
    IF s = <<>> THEN <<>>
    ELSE IF IsWs(s[1]) THEN Strip(Tail(s))
    ELSE IF IsWs(s[Len(s)]) THEN Strip(SubSeq(s, 1, Len(s) - 1))
    ELSE s

StartsWith(s, pat) == Len(s) >= Len(pat) /\ SubSeq(s, 1, Len(pat)) = pat

Contains(s, pat) == \E k \in 0..Len(s) : StartsWith(Drop(s, k), pat)

\* str.replace(pat, rep): non-overlapping occurrences, left to right
RECURSIVE Replace(_, _, _)
Replace(s, pat, rep) ==
    IF s = <<>> THEN <<>>
    ELSE IF StartsWith(s, pat) THEN rep \o Replace(Drop(s, Len(pat)), pat, rep)
    ELSE <<s[1]>> \o Replace(Tail(s), pat, rep)

(***************************************************************************)
(* DocumentProcessor._clean_text                                           *)
(***************************************************************************)
NL3 == <<"\n", "\n", "\n">>
NL2 == <<"\n", "\n">>

\* a plausible slip: squeeze double spaces in one pass instead of
\* splitting and re-joining the words of the line
CleanLineOnePass(line) == Strip(Replace(line, <<" ", " ">>, <<" ">>))

\* cleaned_line = ' '.join(line.split())
CleanLine(line) == Join(SplitWs(line), <<" ">>)

RECURSIVE CleanLines(_)
CleanLines(lines) ==
    IF lines = <<>> THEN <<>>
    ELSE LET cleaned_line == CleanLine(lines[1])
         IN  IF Strip(cleaned_line) # <<>>
             THEN <<cleaned_line>> \o CleanLines(Tail(lines))
             ELSE CleanLines(Tail(lines))

\* while '\n\n\n' in cleaned_text: cleaned_text = cleaned_text.replace(...)
RECURSIVE CollapseNewlines(_)
CollapseNewlines(s) ==
    IF Contains(s, NL3) THEN CollapseNewlines(Replace(s, NL3, NL2)) ELSE s

_clean_text(text) ==
    IF text = <<>> THEN <<>>
    ELSE Strip(CollapseNewlines(Join(CleanLines(SplitOn(text, "\n")), <<"\n">>)))

(***************************************************************************)
(* DocumentProcessor._chunk_text                                           *)
(***************************************************************************)
RECURSIVE SumSizes(_)
SumSizes(ws) == IF ws = <<>> THEN 0 ELSE Len(ws[1]) + 1 + SumSizes(Tail(ws))

\* current_chunk[-overlap:] if overlap > 0 else []
OverlapWords(current_chunk, overlap) ==
    IF overlap > 0
    THEN Drop(current_chunk, Len(current_chunk) - overlap)
    ELSE <<>>

\* a plausible slip: the start index of the re-seeded local sequence
MakeChunkOffByOne(current_chunk, next_i) ==
    LET chunk_text == Join(current_chunk, <<" ">>)
    IN  [text |-> chunk_text, size |-> Len(chunk_text),
         word_count |-> Len(current_chunk),
         start_word |-> next_i - Len(current_chunk) + 1,
         end_word |-> next_i - 1]

\* the chunk record; next_i is i in the loop and len(words) for the final chunk
MakeChunk(current_chunk, next_i) ==
    LET chunk_text == Join(current_chunk, <<" ">>)
    IN  [text |-> chunk_text, size |-> Len(chunk_text),
         word_count |-> Len(current_chunk),
         start_word |-> next_i - Len(current_chunk),
         end_word |-> next_i - 1]

\* the for loop over enumerate(words); i is zero-based
RECURSIVE ChunkLoop(_, _, _, _, _, _, _)
ChunkLoop(words, chunk_size, overlap, i, current_chunk, current_size, chunks) ==
    IF i >= Len(words)
    THEN IF current_chunk # <<>>
         THEN Append(chunks, MakeChunk(current_chunk, Len(words)))
         ELSE chunks
    ELSE LET word == words[i + 1]
             word_size == Len(word) + 1
         IN  IF current_size + word_size > chunk_size /\ current_chunk # <<>>
             THEN LET overlap_words == OverlapWords(current_chunk, overlap)
                  IN  ChunkLoop(words, chunk_size, overlap, i + 1,
                                Append(overlap_words, word),
                                SumSizes(overlap_words) + word_size,
                                Append(chunks, MakeChunk(current_chunk, i)))
             ELSE ChunkLoop(words, chunk_size, overlap, i + 1,
                            Append(current_chunk, word),
                            current_size + word_size, chunks)

_chunk_text(text, chunk_size, overlap) ==
    IF text = <<>> THEN <<>>
    ELSE ChunkLoop(SplitWs(text), chunk_size, overlap, 0, <<>>, 0, <<>>)

(***************************************************************************)
(* The record store and the jobs, before any request.                      *)
(***************************************************************************)
IdleRun == [pc |-> "idle"]

PipeIdle ==
    /\ jobs = <<>>
    /\ kb = {}
    /\ nextId = 1
    /\ run = IdleRun
    /\ bg = <<>>
    /\ del = Idle
    /\ document_chunks = {}
    /\ srch = Idle
    /\ rel = Idle
    /\ model = "None"
    /\ built = 0
    /\ loop = 0
    /\ callers = [c \in 1..MaxCallers |-> Idle]
    /\ doc = Idle
    /\ upl = Idle
    /\ lst = Idle
    /\ svc = Idle
    /\ proc = Idle
    /\ kws = Idle
    /\ win = Idle

(***************************************************************************)
(* SpecClean: the normalizer applied once and then again to its output.    *)
(***************************************************************************)
InitClean ==
    /\ cleaner \in {[pc |-> "input", text |-> t, once |-> <<>>, twice |-> <<>>] :
                       t \in TextsUpTo(CleanChars, MaxCleanLen)}
    /\ chunker = Idle
    /\ PipeIdle

CleanOnce ==
    /\ cleaner.pc = "input"
    /\ cleaner' = [cleaner EXCEPT !.pc = "cleaned", !.once = _clean_text(cleaner.text)]
    /\ UNCHANGED <<chunker, pipevars, vecvars, svcvars>>

CleanTwice ==
    /\ cleaner.pc = "cleaned"
    /\ cleaner' = [cleaner EXCEPT !.pc = "done", !.twice = _clean_text(cleaner.once)]
    /\ UNCHANGED <<chunker, pipevars, vecvars, svcvars>>

NextClean == CleanOnce \/ CleanTwice

SpecClean == InitClean /\ [][NextClean]_vars

(***************************************************************************)
(* SpecChunk: the word chunker applied to a text.                          *)
(***************************************************************************)
InitChunk ==
    /\ chunker \in {[pc |-> "input", text |-> t, chunk_size |-> cs,
                     overlap |-> ov, chunks |-> <<>>] :
                       t \in TextsUpTo(ChunkChars, MaxChunkLen),
                       cs \in 1..MaxChunkSize, ov \in 0..MaxOverlap}
    /\ cleaner = Idle
    /\ PipeIdle

ChunkCall ==
    /\ chunker.pc = "input"
    /\ chunker' = [chunker EXCEPT !.pc = "done",
                      !.chunks = _chunk_text(chunker.text, chunker.chunk_size,
                                             chunker.overlap)]
    /\ UNCHANGED <<cleaner, pipevars, vecvars, svcvars>>

NextChunk == ChunkCall

SpecChunk == InitChunk /\ [][NextChunk]_vars

(***************************************************************************)
(* DocumentProcessor.process_document, from the extracted text on.         *)
(***************************************************************************)
\* a slip: the test for blank text left out
process_document_unchecked(raw_text, chunk_size, overlap) ==
    LET cleaned_text == _clean_text(raw_text)
        chunks == _chunk_text(cleaned_text, chunk_size, overlap)
    IN  [success |-> TRUE, error |-> "None",
         chunks |-> chunks, total_chunks |-> Len(chunks)]

process_document(raw_text, chunk_size, overlap) ==
    IF raw_text = <<>> \/ Strip(raw_text) = <<>>
    THEN [success |-> FALSE, error |-> "No text content could be extracted",
          chunks |-> <<>>, total_chunks |-> 0]
    ELSE LET cleaned_text == _clean_text(raw_text)
             chunks == _chunk_text(cleaned_text, chunk_size, overlap)
         IN  [success |-> TRUE, error |-> "None",
              chunks |-> chunks, total_chunks |-> Len(chunks)]

(***************************************************************************)
(* The record store: three entry collections and the job collections.      *)
(* A row is a function from column names to values.                         *)
(***************************************************************************)
Accounts == {"acc1", "acc2"}
Filenames == {"f1", "f2"}
RawTexts == {<<>>, <<"a">>, <<"a", " ", "b">>}

\* the scopes a request can name: (account, tier, thread id, agent id)
Scopes ==
    {[account_id |-> "acc1", kb_type |-> "global", thread_id |-> "None", agent_id |-> "None"],
     [account_id |-> "acc2", kb_type |-> "global", thread_id |-> "None", agent_id |-> "None"],
     [account_id |-> "acc1", kb_type |-> "thread", thread_id |-> "t1", agent_id |-> "None"],
     [account_id |-> "acc1", kb_type |-> "agent", thread_id |-> "None", agent_id |-> "g1"],
     [account_id |-> "acc1", kb_type |-> "notes", thread_id |-> "None", agent_id |-> "None"]}

\* a slip: every tier is written to the global collection
TableOfGlobalOnly(kb_type) ==
    IF kb_type \in {"global", "thread", "agent"} THEN "global_knowledge_base" ELSE "None"

\* the collection a tier is stored in; "None" for an invalid tier
TableOf(kb_type) ==
    CASE kb_type = "global" -> "global_knowledge_base"
      [] kb_type = "thread" -> "thread_knowledge_base"
      [] kb_type = "agent" -> "agent_knowledge_base_entries"
      [] OTHER -> "None"

\* chunk_data of chunk i (zero-based) of len(chunks), as inserted
ChunkRow(id, r, i) ==
    [id |-> id,
     table |-> TableOf(r.kb_type),
     account_id |-> r.account_id,
     thread_id |-> IF r.kb_type = "thread" THEN r.thread_id ELSE "None",
     agent_id |-> IF r.kb_type = "agent" THEN r.agent_id ELSE "None",
     content |-> r.processing_result.chunks[i + 1].text,
     usage_context |-> "contextual",
     is_active |-> TRUE,
     source_type |-> "file_upload",
     source_metadata |->
        [original_filename |-> r.filename,
         chunk_index |-> i,
         total_chunks |-> Len(r.processing_result.chunks),
         queue_id |-> r.queue_id]]

\* a slip: stop at the first failed insert instead of continuing
NextChunkIndexBreak(i, n, outcome) == IF outcome = "ok" THEN i + 1 ELSE n

\* the loop goes on to the next chunk after `continue` as after a stored chunk
NextChunkIndex(i, n, outcome) == i + 1

\* _update_processing_status: the exception of a failed write is swallowed
_update_processing_status(js, queue_id, status, message, outcome) ==
    IF outcome = "ok"
    THEN [js EXCEPT ![queue_id] =
            [@ EXCEPT !.status = status,
                      !.error_message = IF message # "None" THEN message ELSE @]]
    ELSE js

\* the stored procedure update_agent_kb_job_status
update_agent_kb_job_status(js, job_id, status, error_message) ==
    [js EXCEPT ![job_id] =
        [@ EXCEPT !.status = status,
                  !.error_message = IF error_message # "None" THEN error_message ELSE @]]

(***************************************************************************)
(* DocumentStorageService.store_document, one step per store access.       *)
(***************************************************************************)
NoResult == [success |-> FALSE, error |-> "unset"]

\* a slip: the failure is logged and the run goes on to store the chunks
StoreFailureContinues(r, error) ==
    [r EXCEPT !.pc = "insert",
              !.result = [success |-> FALSE, error |-> error, job_id |-> 0]]

StoreFailure(r, error) ==
    [r EXCEPT !.pc = "done",
              !.result = [success |-> FALSE, error |-> error, job_id |-> 0]]

\* Step 1: process the document
StoreBegin ==
    /\ run.pc = "idle"
    /\ Len(jobs) < MaxJobs
    /\ \E scope \in Scopes, filename \in Filenames, raw_text \in RawTexts :
          LET processing_result ==
                  process_document(raw_text, PipeChunkSize, PipeOverlap)
              r == [pc |-> "create_job",
                    account_id |-> scope.account_id, kb_type |-> scope.kb_type,
                    thread_id |-> scope.thread_id, agent_id |-> scope.agent_id,
                    filename |-> filename,
                    processing_result |-> processing_result,
                    queue_id |-> 0, i |-> 0, passes |-> 0,
                    status_set |-> "None",
                    stored_chunks |-> <<>>,
                    storage_result |-> NoResult, result |-> NoResult]
          IN  run' = IF processing_result.success
                     THEN r
                     ELSE StoreFailure(r, "Document processing failed")
    /\ UNCHANGED <<jobs, kb, nextId, bg, del, purevars, vecvars, svcvars>>

\* Step 2: _create_processing_queue_entry
StoreCreateJob ==
    /\ run.pc = "create_job"
    /\ \E outcome \in {"ok", "error"} :
          IF outcome = "ok"
          THEN /\ jobs' = Append(jobs,
                    [table |-> "document_processing_queue",
                     status |-> "processing", error_message |-> "None"])
               /\ run' = [run EXCEPT !.pc = "chunks", !.queue_id = Len(jobs) + 1]
          ELSE /\ run' = StoreFailure(run, "Failed to create processing queue entry")
               /\ UNCHANGED jobs
    /\ UNCHANGED <<kb, nextId, bg, del, purevars, vecvars, svcvars>>

\* Step 3, entry of _store_document_chunks
StoreChunksEnter ==
    /\ run.pc = "chunks"
    /\ \E outcome \in {"ok", "error"} :
          run' = IF outcome = "error"
                 THEN [run EXCEPT !.pc = "status",
                          !.storage_result = [success |-> FALSE,
                              error |-> "client error", chunks_stored |-> 0]]
                 ELSE IF run.processing_result.chunks = <<>>
                 THEN [run EXCEPT !.pc = "status",
                          !.storage_result = [success |-> FALSE,
                              error |-> "No chunks to store", chunks_stored |-> 0]]
                 ELSE [run EXCEPT !.pc = "insert"]
    /\ UNCHANGED <<jobs, kb, nextId, bg, del, purevars, vecvars, svcvars>>

\* Step 3, one pass of the loop over enumerate(chunks): an insert that
\* raises or returns no row stores nothing and the loop continues
StoreInsertChunk ==
    /\ run.pc = "insert"
    /\ run.i < Len(run.processing_result.chunks)
    /\ \E outcome \in (IF TableOf(run.kb_type) = "None"
                       THEN {"invalid_type"}
                       ELSE {"ok", "raise", "nodata"}) :
          LET n == Len(run.processing_result.chunks)
              row == ChunkRow(nextId, run, run.i)
              stored == IF outcome = "ok"
                        THEN Append(run.stored_chunks,
                                    [chunk_id |-> row.id, chunk_index |-> run.i,
                                     size |-> run.processing_result.chunks[run.i + 1].size])
                        ELSE run.stored_chunks
              next_i == NextChunkIndex(run.i, n, outcome)
          IN  /\ kb' = IF outcome = "ok" THEN kb \cup {row} ELSE kb
              /\ nextId' = IF outcome = "ok" THEN nextId + 1 ELSE nextId
              /\ run' = IF next_i < n
                        THEN [run EXCEPT !.i = next_i, !.passes = @ + 1,
                                         !.stored_chunks = stored]
                        ELSE [run EXCEPT !.pc = "status", !.i = next_i,
                                 !.passes = @ + 1,
                                 !.stored_chunks = stored,
                                 !.storage_result =
                                     [success |-> TRUE, error |-> "None",
                                      chunks_stored |-> Len(stored),
                                      total_chunks |-> n]]
    /\ UNCHANGED <<jobs, bg, del, purevars, vecvars, svcvars>>

\* Step 3 failure branch and Step 4: the status write and the return value
StoreUpdateStatus ==
    /\ run.pc = "status"
    /\ \E outcome \in {"ok", "raise"} :
          IF ~run.storage_result.success
          THEN /\ jobs' = _update_processing_status(jobs, run.queue_id, "failed",
                              run.storage_result.error, outcome)
               /\ run' = [run EXCEPT !.pc = "done", !.status_set = "failed",
                             !.result = [success |-> FALSE,
                                         error |-> run.storage_result.error,
                                         chunks_stored |-> 0]]
          ELSE /\ jobs' = _update_processing_status(jobs, run.queue_id, "completed",
                              "Successfully stored chunks", outcome)
               /\ run' = [run EXCEPT !.pc = "done", !.status_set = "completed",
                             !.result = [success |-> TRUE, error |-> "None",
                                 job_id |-> run.queue_id,
                                 chunks_stored |-> run.storage_result.chunks_stored,
                                 total_chunks |-> run.processing_result.total_chunks]]
    /\ UNCHANGED <<kb, nextId, bg, del, purevars, vecvars, svcvars>>

\* the caller has the result; the service takes the next document
StoreReturn ==
    /\ run.pc = "done"
    /\ run' = IdleRun
    /\ UNCHANGED <<jobs, kb, nextId, bg, del, purevars, vecvars, svcvars>>

(***************************************************************************)
(* upload_file_to_agent_kb and process_file_background (api.py): one       *)
(* background task per uploaded file, task k working on job k.             *)
(***************************************************************************)
SetPc(tasks, k, pc) == [tasks EXCEPT ![k] = [@ EXCEPT !.pc = pc]]

\* create_agent_kb_processing_job, then the background task is scheduled
UploadFileToAgent ==
    /\ Len(jobs) < MaxBgJobs
    /\ jobs' = Append(jobs,
            [table |-> "agent_kb_file_processing_jobs",
             status |-> "pending", error_message |-> "None"])
    /\ bg' = Append(bg, [pc |-> "start", job_id |-> Len(jobs) + 1, success |-> FALSE])
    /\ UNCHANGED <<kb, nextId, run, del, purevars, vecvars, svcvars>>

\* the write of 'processing'
BgMarkProcessing ==
    \E k \in 1..Len(bg) :
        /\ bg[k].pc = "start"
        /\ \E outcome \in {"ok", "raise"} :
              IF outcome = "ok"
              THEN /\ jobs' = update_agent_kb_job_status(jobs, bg[k].job_id,
                                  "processing", "None")
                   /\ bg' = SetPc(bg, k, "process")
              ELSE /\ bg' = SetPc(bg, k, "except")
                   /\ UNCHANGED jobs
        /\ UNCHANGED <<kb, nextId, run, del, purevars, vecvars, svcvars>>

\* processor.process_file_upload: success, failure or an exception
BgProcessFile ==
    \E k \in 1..Len(bg) :
        /\ bg[k].pc = "process"
        /\ \E outcome \in {"success", "failure", "raise"} :
              bg' = IF outcome = "raise"
                    THEN SetPc(bg, k, "except")
                    ELSE [bg EXCEPT ![k] = [@ EXCEPT !.pc = "final",
                                               !.success = (outcome = "success")]]
        /\ UNCHANGED <<jobs, kb, nextId, run, del, purevars, vecvars, svcvars>>

\* the write of 'completed' or 'failed' inside the try block
BgMarkFinal ==
    \E k \in 1..Len(bg) :
        /\ bg[k].pc = "final"
        /\ \E outcome \in {"ok", "raise"} :
              IF outcome = "ok"
              THEN /\ jobs' = IF bg[k].success
                              THEN update_agent_kb_job_status(jobs, bg[k].job_id,
                                       "completed", "None")
                              ELSE update_agent_kb_job_status(jobs, bg[k].job_id,
                                       "failed", "Unknown error")
                   /\ bg' = SetPc(bg, k, "done")
              ELSE /\ bg' = SetPc(bg, k, "except")
                   /\ UNCHANGED jobs
        /\ UNCHANGED <<kb, nextId, run, del, purevars, vecvars, svcvars>>

\* the except branch: write 'failed'; a failure of this write is passed over
BgExcept ==
    \E k \in 1..Len(bg) :
        /\ bg[k].pc = "except"
        /\ \E outcome \in {"ok", "raise"} :
              jobs' = IF outcome = "ok"
                      THEN update_agent_kb_job_status(jobs, bg[k].job_id,
                               "failed", "exception")
                      ELSE jobs
        /\ bg' = SetPc(bg, k, "done")
        /\ UNCHANGED <<kb, nextId, run, del, purevars, vecvars, svcvars>>

(***************************************************************************)
(* DocumentStorageService.delete_document_chunks                           *)
(***************************************************************************)
\* select(cols): the rows of the response carry the selected columns only
Select(rows, cols) == {[c \in cols |-> row[c]] : row \in rows}

\* chunk.get("source_metadata", {}).get("original_filename")
OriginalFilenameOf(chunk) ==
    LET meta == IF "source_metadata" \in DOMAIN chunk
                THEN chunk.source_metadata
                ELSE <<>>
    IN  IF "original_filename" \in DOMAIN meta
        THEN meta.original_filename
        ELSE "None"

\* the rows the query builder of a tier selects from
ScopeRows(entries, account_id, kb_type, thread_id, agent_id) ==
    {e \in entries :
        /\ e.table = TableOf(kb_type)
        /\ e.account_id = account_id
        /\ (kb_type = "thread" => e.thread_id = thread_id)
        /\ (kb_type = "agent" => e.agent_id = agent_id)}

DeleteDocumentChunks ==
    /\ del.pc = "idle"
    /\ \E scope \in Scopes, filename \in Filenames, outcome \in {"ok", "error"} :
          LET table_name == TableOf(scope.kb_type)
              data == Select({e \in ScopeRows(kb, scope.account_id, scope.kb_type,
                                              scope.thread_id, scope.agent_id) :
                                 e.source_type = "file_upload"}, {"id"})
              chunk_ids == {chunk.id : chunk \in
                              {c \in data : OriginalFilenameOf(c) = filename}}
              after == IF table_name = "None" \/ outcome = "error"
                       THEN kb
                       ELSE {e \in kb : ~(e.table = table_name /\ e.id \in chunk_ids)}
              result ==
                  IF table_name = "None"
                  THEN [success |-> FALSE, error |-> "Invalid knowledge base type"]
                  ELSE IF outcome = "error"
                  THEN [success |-> FALSE, error |-> "store error"]
                  ELSE IF data = {}
                  THEN [success |-> TRUE, chunks_deleted |-> 0]
                  ELSE [success |-> TRUE, chunks_deleted |-> Cardinality(chunk_ids)]
          IN  /\ kb' = after
              /\ del' = [pc |-> "done", scope |-> scope, filename |-> filename,
                         before |-> kb, after |-> after, result |-> result]
    /\ UNCHANGED <<jobs, nextId, run, bg, purevars, vecvars, svcvars>>

\* delete_document hands the count to the caller
DeleteReturn ==
    /\ del.pc = "done"
    /\ del' = Idle
    /\ UNCHANGED <<jobs, kb, nextId, run, bg, purevars, vecvars, svcvars>>

(***************************************************************************)
(* Spec: ingestion runs and deletions on one store.                         *)
(***************************************************************************)
Init ==
    /\ PipeIdle
    /\ cleaner = Idle
    /\ chunker = Idle

Next ==
    \/ StoreBegin
    \/ StoreCreateJob
    \/ StoreChunksEnter
    \/ StoreInsertChunk
    \/ StoreUpdateStatus
    \/ StoreReturn
    \/ DeleteDocumentChunks
    \/ DeleteReturn

Spec == Init /\ [][Next]_vars

(***************************************************************************)
(* SpecJobs: the background jobs of the agent file upload.                 *)
(***************************************************************************)
NextJobs ==
    \/ UploadFileToAgent
    \/ BgMarkProcessing
    \/ BgProcessFile
    \/ BgMarkFinal
    \/ BgExcept

SpecJobs == Init /\ [][NextJobs]_vars

(***************************************************************************)
(* VectorService: cosine similarity, in hundredths.                        *)
(***************************************************************************)
Vectors == {<<0, 0>>, <<1, 0>>, <<1, 1>>}

\* a null embedding (None, or an empty list: both are falsy)
NoEmbedding == <<>>

\* similarity thresholds, in hundredths
Thresholds == {60, 80}

Dot(a, b) == a[1] * b[1] + a[2] * b[2]

\* floor(100 * sqrt(num / den)) for 0 <= num <= den, den > 0
RootCenti(num, den) ==
    CHOOSE r \in 0..100 :
        /\ r * r * den <= 10000 * num
        /\ (r + 1) * (r + 1) * den > 10000 * num

Sign(x) == IF x < 0 THEN -1 ELSE 1

\* dot(a, b) / (|a| * |b|), and 0.0 when a norm is zero
_calculate_cosine_similarity(vec1, vec2) ==
    IF Dot(vec1, vec1) = 0 \/ Dot(vec2, vec2) = 0
    THEN 0
    ELSE Sign(Dot(vec1, vec2))
            * RootCenti(Dot(vec1, vec2) * Dot(vec1, vec2),
                        Dot(vec1, vec1) * Dot(vec2, vec2))

\* the similarity of every pair of embeddings of the model, computed once
Similarity ==
    [a \in Vectors |-> [b \in Vectors |-> _calculate_cosine_similarity(a, b)]]

(***************************************************************************)
(* VectorService.chunk_document                                            *)
(***************************************************************************)
ChunkDocSize == 1000
ChunkDocOverlap == 200
SentenceWindow == 100

Max2(a, b) == IF a >= b THEN a ELSE b
Min2(a, b) == IF a <= b THEN a ELSE b

\* the position a slice bound denotes: negative bounds count from the end
SliceBound(a, n) == IF a < 0 THEN Max2(a + n, 0) ELSE Min2(a, n)

\* content[a:b]
Slice(s, a, b) ==
    LET lo == SliceBound(a, Len(s))
        hi == SliceBound(b, Len(s))
    IN  IF lo >= hi THEN <<>> ELSE SubSeq(s, lo + 1, hi)

\* content[i]: a negative index counts from the end
PyAt(s, i) == IF i >= 0 THEN s[i + 1] ELSE s[Len(s) + i + 1]

\* the end of the window starting at start: snapped back to just after the
\* last sentence terminator of the final 100 characters, if there is one
WindowEnd(content, start, chunk_size) ==
    LET end == start + chunk_size
        search_start == Max2(start, end - SentenceWindow)
        stops == {i \in (search_start + 1)..(end - 1) :
                     i >= 0 - Len(content) /\ PyAt(content, i) \in {".", "!", "?"}}
    IN  IF end < Len(content) /\ stops # {}
        THEN (CHOOSE i \in stops : \A j \in stops : j <= i) + 1
        ELSE end

\* the scan for a terminator reaches an index below -len(content) before it
\* finds one: content[i] raises IndexError
WindowRaises(content, start, chunk_size) ==
    LET end == start + chunk_size
        search_start == Max2(start, end - SentenceWindow)
    IN  /\ end < Len(content)
        /\ search_start + 1 < 0 - Len(content)
        /\ search_start + 1 <= end - 1
        /\ WindowEnd(content, start, chunk_size) = end

RECURSIVE ChunkWindows(_, _, _, _, _)
ChunkWindows(content, chunk_size, overlap, start, chunks) ==
    IF start >= Len(content) THEN chunks
    ELSE LET end == WindowEnd(content, start, chunk_size)
             chunk == Strip(Slice(content, start, end))
             out == IF chunk # <<>> THEN Append(chunks, chunk) ELSE chunks
         IN  ChunkWindows(content, chunk_size, overlap, end - overlap, out)

chunk_document(content, chunk_size, overlap) ==
    IF Len(content) <= chunk_size
    THEN <<content>>
    ELSE ChunkWindows(content, chunk_size, overlap, 0, <<>>)

(***************************************************************************)
(* The document_chunks collection, process_document_for_kb and             *)
(* search_knowledge_base.                                                   *)
(***************************************************************************)
VecContents == {<<"a">>}

VecScopes ==
    {[kb_type |-> "global", account_id |-> "acc1", thread_id |-> "None"],
     [kb_type |-> "global", account_id |-> "acc2", thread_id |-> "None"],
     [kb_type |-> "thread", account_id |-> "acc1", thread_id |-> "t1"]}

\* process_document_for_kb: the chunks whose embedding is not null are
\* inserted in one write; account_id and thread_id are the columns of the
\* document the search filters on
ProcessDocumentForKb ==
    /\ Cardinality(document_chunks) < MaxRows
    /\ \E scope \in VecScopes, content \in VecContents,
          embedding \in Vectors \cup {NoEmbedding}, outcome \in {"ok", "raise"} :
          LET chunks == chunk_document(content, ChunkDocSize, ChunkDocOverlap)
              chunk_records ==
                  {[id |-> Cardinality(document_chunks) + i,
                    created_at |-> Cardinality(document_chunks) + i,
                    kb_type |-> scope.kb_type,
                    account_id |-> scope.account_id,
                    thread_id |-> scope.thread_id,
                    chunk_index |-> i - 1,
                    chunk_text |-> chunks[i],
                    embedding |-> embedding] :
                      i \in {j \in 1..Len(chunks) : embedding # NoEmbedding}}
          IN  document_chunks' = IF outcome = "ok"
                                 THEN document_chunks \cup chunk_records
                                 ELSE document_chunks
    /\ UNCHANGED <<srch, pipevars, purevars, svcvars>>

\* the orders in which the store may return a set of rows
Orderings(S) ==
    {f \in [1..Cardinality(S) -> S] : \A i, j \in 1..Cardinality(S) : f[i] = f[j] => i = j}

\* the query builder: tier filter, thread filter when a thread id is
\* given, account filter when an account id is given
Candidates(rows, kb_type, thread_id, account_id) ==
    {c \in rows :
        /\ (kb_type \in {"global", "thread", "agent"} => c.kb_type = kb_type)
        /\ ((kb_type = "thread" /\ thread_id # "None") => c.thread_id = thread_id)
        /\ (account_id # "None" => c.account_id = account_id)}

\* the loop that scores the candidates and keeps those at the threshold
RECURSIVE Relevant(_, _, _)
Relevant(data, query_embedding, similarity_threshold) ==
    IF data = <<>> THEN <<>>
    ELSE LET chunk == data[1]
             rest == Relevant(Tail(data), query_embedding, similarity_threshold)
         IN  IF chunk.embedding # NoEmbedding
             THEN LET similarity ==
                          Similarity[query_embedding][chunk.embedding]
                  IN  IF similarity >= similarity_threshold
                      THEN <<[chunk |-> chunk, similarity_score |-> similarity]>> \o rest
                      ELSE rest
             ELSE rest

\* a slip: reverse=True forgotten
RECURSIVE SortAscending(_)
SortAscending(s) ==
    IF s = <<>> THEN <<>>
    ELSE LET rest == SortAscending(Tail(s))
             before == SelectSeq(rest, LAMBDA x : x.similarity_score < s[1].similarity_score)
             after == SelectSeq(rest, LAMBDA x : x.similarity_score >= s[1].similarity_score)
         IN  before \o <<s[1]>> \o after

\* list.sort(key=similarity_score, reverse=True): stable, descending
RECURSIVE SortByScore(_)
SortByScore(s) ==
    IF s = <<>> THEN <<>>
    ELSE LET rest == SortByScore(Tail(s))
             before == SelectSeq(rest, LAMBDA x : x.similarity_score > s[1].similarity_score)
             after == SelectSeq(rest, LAMBDA x : x.similarity_score <= s[1].similarity_score)
         IN  before \o <<s[1]>> \o after

\* search_knowledge_base after the rows came back: no query embedding or
\* no rows gives [], else the rows at the threshold, best first, cut to
\* max_results
search_knowledge_base(query_embedding, data, similarity_threshold, max_results) ==
    IF query_embedding = NoEmbedding \/ data = <<>>
    THEN <<>>
    ELSE Take(SortByScore(Relevant(data, query_embedding, similarity_threshold)),
              max_results)

SearchKnowledgeBase ==
    /\ srch.pc = "idle"
    /\ \E query_embedding \in Vectors \cup {NoEmbedding},
          kb_type \in {"global", "thread", "agent", "notes"},
          thread_id \in {"None", "t1"},
          account_id \in {"None", "acc1"},
          similarity_threshold \in Thresholds,
          max_results \in 0..MaxResults :
          \E data \in Orderings(Candidates(document_chunks, kb_type, thread_id, account_id)) :
              srch' = [pc |-> "done", kb_type |-> kb_type, thread_id |-> thread_id,
                       account_id |-> account_id,
                       query_embedding |-> query_embedding,
                       similarity_threshold |-> similarity_threshold,
                       max_results |-> max_results,
                       data |-> data,
                       result |-> search_knowledge_base(query_embedding, data,
                                                        similarity_threshold,
                                                        max_results)]
    /\ UNCHANGED <<document_chunks, pipevars, purevars, svcvars>>

SearchReturn ==
    /\ srch.pc = "done"
    /\ srch' = Idle
    /\ UNCHANGED <<document_chunks, pipevars, purevars, svcvars>>

InitSearch == Init

NextSearch == ProcessDocumentForKb \/ SearchKnowledgeBase \/ SearchReturn

SpecSearch == InitSearch /\ [][NextSearch]_vars

(***************************************************************************)
(* SpecRelevant: is_query_relevant on the stored chunks.                    *)
(***************************************************************************)
\* max(chunk['similarity_score'] for chunk in relevant_chunks)
MaxScore(relevant_chunks) ==
    CHOOSE m \in {relevant_chunks[i].similarity_score : i \in 1..Len(relevant_chunks)} :
        \A i \in 1..Len(relevant_chunks) : relevant_chunks[i].similarity_score <= m

\* is_query_relevant after the search returned: the pair (bool, score)
is_query_relevant(relevant_chunks, relevance_threshold) ==
    IF relevant_chunks = <<>>
    THEN <<FALSE, 0>>
    ELSE <<MaxScore(relevant_chunks) >= relevance_threshold, MaxScore(relevant_chunks)>>

IsQueryRelevant ==
    /\ rel.pc = "idle"
    /\ \E query_embedding \in Vectors \cup {NoEmbedding},
          kb_type \in {"global", "thread", "agent", "notes"},
          thread_id \in {"None", "t1"},
          account_id \in {"None", "acc1"},
          relevance_threshold \in Thresholds :
          \E data \in Orderings(Candidates(document_chunks, kb_type, thread_id, account_id)) :
              LET relevant_chunks ==
                      search_knowledge_base(query_embedding, data, relevance_threshold, 1)
              IN  rel' = [pc |-> "done", kb_type |-> kb_type, thread_id |-> thread_id,
                          account_id |-> account_id,
                          query_embedding |-> query_embedding,
                          relevance_threshold |-> relevance_threshold,
                          data |-> data,
                          relevant_chunks |-> relevant_chunks,
                          result |-> is_query_relevant(relevant_chunks,
                                                       relevance_threshold)]
    /\ UNCHANGED <<document_chunks, srch, pipevars, purevars, kbvars, embvars, doc, upl, reqvars>>

RelevantReturn ==
    /\ rel.pc = "done"
    /\ rel' = Idle
    /\ UNCHANGED <<document_chunks, srch, pipevars, purevars, kbvars, embvars, doc, upl, reqvars>>

NextRelevant == ProcessDocumentForKb \/ IsQueryRelevant \/ RelevantReturn

SpecRelevant == Init /\ [][NextRelevant]_vars

(***************************************************************************)
(* SpecEmbed: the embedder of VectorService used by several coroutines of  *)
(* one event loop.  `loop` is the coroutine that holds the loop (0: none); *)
(* a coroutine gives the loop up only where it suspends.                   *)
(***************************************************************************)
EmbedTexts == {"x", "y"}

\* model.encode of one text
Encode(text) == IF text = "x" THEN <<1, 0>> ELSE <<1, 1>>

EmbedOps == {"generate_embedding", "generate_chunk_embeddings", "search_knowledge_base"}

\* a slip: the construction of the model awaits (run in an executor)
SuspensionPointsInitAwaits == {"start", "constructing", "db"}

\* where a coroutine is suspended: before it is first scheduled and on the
\* awaits of the store; initialize_model has no await inside
SuspensionPoints == {"start", "db"}

Holds(c, pc) == IF pc \in SuspensionPoints THEN 0 ELSE c

\* generate_chunk_embeddings after the model check: one encode of the whole
\* batch; any failure gives a list of nulls of the same length
generate_chunk_embeddings(chunks, fail) ==
    IF fail = 0
    THEN [i \in 1..Len(chunks) |-> Encode(chunks[i])]
    ELSE [i \in 1..Len(chunks) |-> NoEmbedding]

\* generate_embedding after the model check
generate_embedding(text, fails) == IF fails THEN NoEmbedding ELSE Encode(text)

\* the call is made: the coroutine waits to be scheduled
EmbedCall(c) ==
    /\ callers[c].pc = "idle"
    /\ \E op \in EmbedOps :
          callers' = [callers EXCEPT ![c] = [pc |-> "start", op |-> op]]
    /\ UNCHANGED <<model, built, loop, rel, doc, upl, pipevars, purevars, kbvars, vecvars, reqvars>>

\* if not self.model: await self.initialize_model()
EnsureModel(c) ==
    /\ callers[c].pc = "start"
    /\ loop = 0
    /\ LET pc == IF model = "None" THEN "constructing" ELSE "encode"
       IN  /\ callers' = [callers EXCEPT ![c] =
                              [pc |-> pc, op |-> callers[c].op,
                               initialized |-> (model = "None")]]
           /\ loop' = Holds(c, pc)
    /\ UNCHANGED <<model, built, rel, doc, upl, pipevars, purevars, kbvars, vecvars, reqvars>>

\* initialize_model: the model is constructed and assigned, or the
\* constructor raises and the exception is re-raised; generate_embedding
\* and generate_chunk_embeddings call it outside their try, and
\* search_knowledge_base calls generate_embedding inside its try
InitializeModel(c) ==
    /\ callers[c].pc = "constructing"
    /\ loop = Holds(c, "constructing")
    /\ \E outcome \in {"ok", "raise"} :
          IF outcome = "ok"
          THEN /\ model' = "loaded"
               /\ built' = built + 1
               /\ callers' = [callers EXCEPT ![c].pc = "encode"]
               /\ loop' = c
          ELSE /\ callers' = [callers EXCEPT ![c] =
                      IF callers[c].op = "search_knowledge_base"
                      THEN [pc |-> "done", op |-> callers[c].op,
                            initialized |-> TRUE, encoded_with |-> "nothing",
                            result |-> <<>>]
                      ELSE [pc |-> "raised", op |-> callers[c].op,
                            initialized |-> TRUE, encoded_with |-> "nothing"]]
               /\ loop' = 0
               /\ UNCHANGED <<model, built>>
    /\ UNCHANGED <<rel, doc, upl, pipevars, purevars, kbvars, vecvars, reqvars>>

\* the encode and what follows it up to the next suspension or the return
EmbedEncode(c) ==
    /\ callers[c].pc = "encode"
    /\ loop = c
    /\ LET me == callers[c]
       IN  \/ /\ me.op = "generate_embedding"
              /\ \E text \in EmbedTexts, fails \in BOOLEAN :
                    callers' = [callers EXCEPT ![c] =
                        [pc |-> "done", op |-> me.op, initialized |-> me.initialized,
                         encoded_with |-> model, text |-> text, fails |-> fails,
                         result |-> generate_embedding(text, fails)]]
           \/ /\ me.op = "generate_chunk_embeddings"
              /\ \E n \in 0..MaxBatch :
                    \E chunks \in [1..n -> EmbedTexts], fail \in 0..n :
                        callers' = [callers EXCEPT ![c] =
                            [pc |-> "done", op |-> me.op,
                             initialized |-> me.initialized,
                             encoded_with |-> model, chunks |-> chunks, fail |-> fail,
                             result |-> generate_chunk_embeddings(chunks, fail)]]
           \/ /\ me.op = "search_knowledge_base"
              /\ \E text \in EmbedTexts, fails \in BOOLEAN :
                    callers' = [callers EXCEPT ![c] =
                        [pc |-> IF fails THEN "done" ELSE "db", op |-> me.op,
                         initialized |-> me.initialized,
                         encoded_with |-> model, text |-> text, fails |-> fails,
                         result |-> <<>>]]
    /\ loop' = 0
    /\ UNCHANGED <<model, built, rel, doc, upl, pipevars, purevars, kbvars, vecvars, reqvars>>

\* the rows come back and the search returns
EmbedSearchRows(c) ==
    /\ callers[c].pc = "db"
    /\ loop = 0
    /\ callers' = [callers EXCEPT ![c].pc = "done"]
    /\ UNCHANGED <<model, built, loop, rel, doc, upl, pipevars, purevars, kbvars, vecvars, reqvars>>

EmbedReturn(c) ==
    /\ callers[c].pc \in {"done", "raised"}
    /\ callers' = [callers EXCEPT ![c] = Idle]
    /\ UNCHANGED <<model, built, loop, rel, doc, upl, pipevars, purevars, kbvars, vecvars, reqvars>>

NextEmbed ==
    \E c \in 1..MaxCallers :
        \/ EmbedCall(c)
        \/ EnsureModel(c)
        \/ InitializeModel(c)
        \/ EmbedEncode(c)
        \/ EmbedSearchRows(c)
        \/ EmbedReturn(c)

SpecEmbed == Init /\ [][NextEmbed]_vars

(***************************************************************************)
(* SpecExtract: DocumentProcessor.process_document from the bytes.  A byte  *)
(* is "a" (0x61), " " (0x20) or "FF" (0xFF, not valid in UTF-8); the        *)
(* character U+00FF is written "Y".                                         *)
(***************************************************************************)
ByteVals == {"a", " ", "FF"}

PDF == "application/pdf"
CSV == "text/csv"
DOCX == "application/vnd.openxmlformats-officedocument.wordprocessingml.document"
TXT == "text/plain"
MD == "text/markdown"
JSON == "application/json"
HTML == "text/html"
XLS == "application/vnd.ms-excel"
XLSX == "application/vnd.openxmlformats-officedocument.spreadsheetml.sheet"

\* the keys of self.supported_formats
supported_formats == {PDF, CSV, DOCX, TXT, MD, JSON, HTML, XLS, XLSX}

\* the MIME types a request declares: the supported ones and two others
MimeTypes == supported_formats \cup {"application/zip", "image/png"}

DocChunkSize == 1000
DocOverlap == 200

\* what a library extractor may produce from a file it accepts
LibTexts == {<<>>, <<" ">>, <<"a">>}

\* page.extract_text(): raises, or gives a text
PageResults ==
    {[raises |-> TRUE, text |-> <<>>]} \cup {[raises |-> FALSE, text |-> t] : t \in LibTexts}

SeqsUpTo(S, n) == UNION {[1..k -> S] : k \in 0..n}

\* bytes.decode('utf-8') raises on a byte that is not valid UTF-8
ValidUtf8(file_content) == \A i \in 1..Len(file_content) : file_content[i] # "FF"

\* bytes.decode('utf-8', errors='ignore')
DecodeUtf8Ignore(file_content) == SelectSeq(file_content, LAMBDA b : b # "FF")

\* bytes.decode('latin-1')
DecodeLatin1(file_content) ==
    [i \in 1..Len(file_content) |-> IF file_content[i] = "FF" THEN "Y" ELSE file_content[i]]

Returned(text) == [raises |-> FALSE, text |-> text]
Raised == [raises |-> TRUE, text |-> <<>>]

_extract_fallback_text(file_content) == Returned(DecodeUtf8Ignore(file_content))

\* utf-8, then latin-1 (which decodes any bytes)
_extract_text_text(file_content) ==
    IF ValidUtf8(file_content)
    THEN Returned(file_content)
    ELSE Returned(DecodeLatin1(file_content))

\* a slip: an extractor without its except branch
OnExtractorErrorReraise(mime_type, file_content) == Raised

\* the except branch of an extractor
OnExtractorError(mime_type, file_content) ==
    IF mime_type \in {MD, HTML}
    THEN _extract_text_text(file_content)
    ELSE _extract_fallback_text(file_content)

\* the branch taken when the extractor libraries are not installed
WithoutExtractors(mime_type, file_content) ==
    IF mime_type \in {MD, HTML}
    THEN _extract_text_text(file_content)
    ELSE _extract_fallback_text(file_content)

DigitChars == <<"0", "1", "2", "3", "4", "5", "6", "7", "8", "9">>

\* str(n) for n >= 0
RECURSIVE Str(_)
Str(n) == IF n < 10 THEN <<DigitChars[n + 1]>>
          ELSE Str(n \div 10) \o <<DigitChars[(n % 10) + 1]>>

\* f"--- Page {page_num + 1} ---\n{page_text}", page_num counted from 0
PageText(page_num, page_text) ==
    <<"-", "-", "-", " ", "P", "a", "g", "e", " ">> \o Str(page_num + 1)
        \o <<" ", "-", "-", "-", "\n">> \o page_text

\* a slip: the page is numbered by its place among the pages kept
PageNumberKept(page_num, text_parts) == Len(text_parts)

\* enumerate(pdf_reader.pages): the number of the page in the document
PageNumber(page_num, text_parts) == page_num

\* the loop over the pages, from page_num on
RECURSIVE PdfPages(_, _, _)
PdfPages(pages, page_num, text_parts) ==
    IF page_num >= Len(pages) THEN text_parts
    ELSE LET page == pages[page_num + 1]
         IN  IF ~page.raises /\ Strip(page.text) # <<>>
             THEN PdfPages(pages, page_num + 1,
                           Append(text_parts,
                                  PageText(PageNumber(page_num, text_parts), page.text)))
             ELSE PdfPages(pages, page_num + 1, text_parts)

\* _extract_pdf_text with the libraries installed: the reader raises on the
\* file, or the parts of the pages are joined
_extract_pdf_text(file_content, outcome, pages) ==
    IF outcome = "raise"
    THEN OnExtractorError(PDF, file_content)
    ELSE Returned(Join(PdfPages(pages, 0, <<>>), <<"\n", "\n">>))

\* the extractors that hand the file to a library
LibExtractor(mime_type, file_content, outcome, extracted) ==
    IF outcome = "raise"
    THEN OnExtractorError(mime_type, file_content)
    ELSE Returned(extracted)

\* process_document called with the bytes and the declared type
ProcessDocument ==
    /\ doc.pc = "idle"
    /\ \E mime_type \in MimeTypes, file_content \in SeqsUpTo(ByteVals, MaxBytes),
          available \in BOOLEAN :
          \E outcome \in IF mime_type \in supported_formats \ {TXT}
                          /\ (available \/ mime_type = JSON)
                         THEN {"ok", "raise"} ELSE {"ok"} :
          \E extracted \in IF mime_type \in supported_formats \ {TXT, PDF}
                               /\ (available \/ mime_type = JSON) /\ outcome = "ok"
                            THEN LibTexts ELSE {<<>>},
             pages \in IF mime_type = PDF /\ available /\ outcome = "ok"
                       THEN SeqsUpTo(PageResults, MaxPages) ELSE {<<>>} :
              LET raw == IF mime_type \notin supported_formats
                         THEN _extract_fallback_text(file_content)
                         ELSE IF mime_type = TXT
                         THEN _extract_text_text(file_content)
                         ELSE IF ~available /\ mime_type # JSON
                         THEN WithoutExtractors(mime_type, file_content)
                         ELSE IF mime_type = PDF
                         THEN _extract_pdf_text(file_content, outcome, pages)
                         ELSE LibExtractor(mime_type, file_content, outcome, extracted)
                  result == IF raw.raises
                            THEN [success |-> FALSE, error |-> "str(e)",
                                  chunks |-> <<>>, total_chunks |-> 0]
                            ELSE process_document(raw.text, DocChunkSize, DocOverlap)
              IN  doc' = [pc |-> "done", mime_type |-> mime_type,
                          file_content |-> file_content, available |-> available,
                          outcome |-> outcome, extracted |-> extracted, pages |-> pages,
                          raw |-> raw, result |-> result]
    /\ UNCHANGED <<rel, embvars, upl, pipevars, purevars, kbvars, vecvars, reqvars>>

ProcessDocumentReturn ==
    /\ doc.pc = "done"
    /\ doc' = Idle
    /\ UNCHANGED <<rel, embvars, upl, pipevars, purevars, kbvars, vecvars, reqvars>>

NextExtract == ProcessDocument \/ ProcessDocumentReturn

SpecExtract == Init /\ [][NextExtract]_vars

(***************************************************************************)
(* SpecUpload: the two upload endpoints of api.py, each request handled in *)
(* one step; `upl` is the request last handled and its response.           *)
(***************************************************************************)
\* allowed_types of upload_document
allowed_types == {PDF, CSV, DOCX, TXT, MD, JSON}

\* max_size of upload_document, in bytes
max_size == 50 * 1024 * 1024

\* the sizes of the uploaded files
UploadSizes == {0, max_size - 1, max_size, max_size + 1}

\* file.size > max_size
TooLarge(size) == size > max_size

\* upload_document: feature flag, type, size, user, account, then the
\* pending job is inserted; the response status and the check that ended
\* the request
UploadDocument ==
    /\ upl.pc = "idle"
    /\ Len(jobs) < MaxUploads
    /\ \E enabled \in BOOLEAN, content_type \in MimeTypes, size \in UploadSizes,
          user \in {"ok", "none"}, account \in {"ok", "none"},
          insert \in {"ok", "nodata", "raise"} :
          LET ended == IF ~enabled THEN <<403, "feature">>
                       ELSE IF content_type \notin allowed_types THEN <<400, "type">>
                       ELSE IF TooLarge(size) THEN <<400, "size">>
                       ELSE IF user = "none" THEN <<401, "user">>
                       ELSE IF account = "none" THEN <<400, "account">>
                       ELSE IF insert # "ok" THEN <<500, "insert">>
                       ELSE <<200, "none">>
          IN  /\ jobs' = IF ended[1] = 200
                         THEN Append(jobs, [table |-> "document_processing_queue",
                                            status |-> "pending",
                                            error_message |-> "None"])
                         ELSE jobs
              /\ upl' = [pc |-> "done", endpoint |-> "upload_document",
                         content_type |-> content_type, size |-> size,
                         valid |-> (enabled /\ user = "ok" /\ account = "ok"
                                        /\ insert = "ok"),
                         status |-> ended[1], ended_by |-> ended[2],
                         job_created |-> (ended[1] = 200),
                         extraction_started |-> FALSE]
    /\ UNCHANGED <<kb, nextId, run, bg, del, rel, embvars, doc, purevars, kbvars, vecvars, reqvars>>

\* upload_file_to_agent_kb: feature flag, agent access, then the job is
\* created and the background task that extracts the file is scheduled
UploadFileToAgentKb ==
    /\ upl.pc = "idle"
    /\ Len(jobs) < MaxUploads
    /\ \E enabled \in BOOLEAN, content_type \in MimeTypes, size \in UploadSizes,
          access \in {"ok", "denied"}, rpc \in {"ok", "nodata", "raise"} :
          LET ended == IF ~enabled THEN <<403, "feature">>
                       ELSE IF access = "denied" THEN <<403, "agent">>
                       ELSE IF rpc # "ok" THEN <<500, "insert">>
                       ELSE <<200, "none">>
          IN  /\ jobs' = IF ended[1] = 200
                         THEN Append(jobs, [table |-> "agent_kb_file_processing_jobs",
                                            status |-> "pending",
                                            error_message |-> "None"])
                         ELSE jobs
              /\ bg' = IF ended[1] = 200
                       THEN Append(bg, [pc |-> "start", job_id |-> Len(jobs) + 1,
                                        success |-> FALSE])
                       ELSE bg
              /\ upl' = [pc |-> "done", endpoint |-> "upload_file_to_agent_kb",
                         content_type |-> content_type, size |-> size,
                         valid |-> (enabled /\ access = "ok" /\ rpc = "ok"),
                         status |-> ended[1], ended_by |-> ended[2],
                         job_created |-> (ended[1] = 200),
                         extraction_started |-> (ended[1] = 200)]
    /\ UNCHANGED <<kb, nextId, run, del, rel, embvars, doc, purevars, kbvars, vecvars, reqvars>>

UploadReturn ==
    /\ upl.pc = "done"
    /\ upl' = Idle
    /\ UNCHANGED <<pipevars, rel, embvars, doc, purevars, kbvars, vecvars, reqvars>>

NextUpload == UploadDocument \/ UploadFileToAgentKb \/ UploadReturn

SpecUpload == Init /\ [][NextUpload]_vars

(***************************************************************************)
(* SpecList: the entries of the global tier, created and updated through   *)
(* KnowledgeBaseService and listed through the service and through         *)
(* GET /global of api.py.  `caller` is the account of the user, `resolved` *)
(* what the account lookup gave ("None": no account found).                *)
(***************************************************************************)
GlobalRow(id, account_id) ==
    [id |-> id, table |-> "global_knowledge_base", account_id |-> account_id,
     is_active |-> TRUE, source_type |-> "manual"]

GlobalRows == {e \in kb : e.table = "global_knowledge_base"}

\* create_global_knowledge_base_entry
CreateGlobalEntry ==
    /\ Cardinality(kb) < MaxEntries
    /\ \E caller \in Accounts, insert \in {"ok", "nodata", "raise"} :
          IF insert = "ok"
          THEN /\ kb' = kb \cup {GlobalRow(nextId, caller)}
               /\ nextId' = nextId + 1
          ELSE UNCHANGED <<kb, nextId>>
    /\ UNCHANGED <<jobs, run, bg, del, purevars, kbvars, vecvars, rel, embvars, doc, upl, reqvars>>

\* update_global_knowledge_base_entry with is_active in the update data:
\* the entry is looked up by id and account, then updated by id
UpdateGlobalEntry ==
    /\ \E caller \in Accounts, e \in GlobalRows, is_active \in BOOLEAN :
          /\ e.account_id = caller
          /\ kb' = (kb \ {e}) \cup {[e EXCEPT !.is_active = is_active]}
    /\ UNCHANGED <<jobs, nextId, run, bg, del, purevars, kbvars, vecvars, rel, embvars, doc, upl, reqvars>>

\* the is_active filter of the listing
ActiveFilter(rows, include_inactive) ==
    {e \in rows : include_inactive \/ e.is_active}

\* KnowledgeBaseService.get_global_knowledge_base: no account raises; the
\* rows of the account that are active; a failing query gives no entries
ServiceGetGlobal ==
    /\ lst.pc = "idle"
    /\ \E caller \in Accounts, resolved \in {"acc", "None"},
          query \in {"ok", "raise"} :
          LET account_id == IF resolved = "acc" THEN caller ELSE "None"
          IN  lst' = [pc |-> "done", via |-> "service", caller |-> caller,
                      account_id |-> account_id,
                      status |-> IF account_id = "None" THEN "ValueError" ELSE "ok",
                      path |-> IF account_id = "None" THEN "none" ELSE "table",
                      entries |-> IF account_id = "None" \/ query = "raise"
                                  THEN {}
                                  ELSE {e \in GlobalRows :
                                           e.account_id = account_id /\ e.is_active}]
    /\ UNCHANGED <<pipevars, purevars, kbvars, vecvars, rel, embvars, doc, upl, svc>>

\* the stored procedure get_global_knowledge_base(p_account_id,
\* p_include_inactive)
get_global_knowledge_base_rpc(rows, p_account_id, p_include_inactive) ==
    ActiveFilter({e \in rows : e.account_id = p_account_id}, p_include_inactive)

\* the direct table query of GET /global: filtered by account only when an
\* account id was found
DirectTableQuery(rows, account_id, include_inactive) ==
    ActiveFilter(IF account_id = "None"
                 THEN rows
                 ELSE {e \in rows : e.account_id = account_id},
                 include_inactive)

\* GET /global: feature flag, user, account id, the stored procedure when
\* there is an account id, else or on no data or failure the direct query
ApiGetGlobal ==
    /\ lst.pc = "idle"
    /\ \E caller \in Accounts, enabled \in BOOLEAN, authenticated \in BOOLEAN,
          resolved \in {"acc", "None"}, include_inactive \in BOOLEAN,
          rpc \in {"ok", "raise"}, query \in {"ok", "error", "raise"} :
          LET account_id == IF resolved = "acc" THEN caller ELSE "None"
              rpc_data == IF account_id # "None" /\ rpc = "ok"
                          THEN get_global_knowledge_base_rpc(GlobalRows, account_id,
                                                             include_inactive)
                          ELSE {}
              status == IF ~enabled THEN 403 ELSE IF ~authenticated THEN 401 ELSE 200
              path == IF status # 200 THEN "none"
                      ELSE IF rpc_data # {} THEN "rpc" ELSE "table"
          IN  lst' = [pc |-> "done", via |-> "api", caller |-> caller,
                      account_id |-> account_id, status |-> status, path |-> path,
                      entries |-> IF path = "rpc" THEN rpc_data
                                  ELSE IF path = "table" /\ query = "ok"
                                  THEN DirectTableQuery(GlobalRows, account_id,
                                                        include_inactive)
                                  ELSE {}]
    /\ UNCHANGED <<pipevars, purevars, kbvars, vecvars, rel, embvars, doc, upl, svc>>

ListReturn ==
    /\ lst.pc = "done"
    /\ lst' = Idle
    /\ UNCHANGED <<pipevars, purevars, kbvars, vecvars, rel, embvars, doc, upl, svc>>

NextList ==
    \/ CreateGlobalEntry
    \/ UpdateGlobalEntry
    \/ ServiceGetGlobal
    \/ ApiGetGlobal
    \/ ListReturn

SpecList == Init /\ [][NextList]_vars

(***************************************************************************)
(* SpecService: the thread- and agent-scoped operations of                  *)
(* KnowledgeBaseService.  `svc` is the call last made: its arguments, the  *)
(* tables it touched in order (`log`) and how it ended.                     *)
(***************************************************************************)
\* the threads and agents tables: id -> account_id
ThreadsTable == [t \in {"t1", "t2"} |-> IF t = "t1" THEN "acc1" ELSE "acc2"]
AgentsTable == [g \in {"g1", "g2"} |-> IF g = "g1" THEN "acc1" ELSE "acc2"]

\* the ids a request can name: existing ones and one that does not exist
ThreadIds == {"t1", "t2", "t9"}
AgentIds == {"g1", "g2", "g9"}

\* a slip: the owner of the thread is not compared with the caller
verify_thread_access_found(thread_id, user_account_id) ==
    IF thread_id \notin DOMAIN ThreadsTable THEN "Thread not found" ELSE "ok"

verify_thread_access(thread_id, user_account_id) ==
    IF thread_id \notin DOMAIN ThreadsTable THEN "Thread not found"
    ELSE IF user_account_id # ThreadsTable[thread_id] THEN "Access denied to thread"
    ELSE "ok"

verify_agent_access(agent_id, user_account_id) ==
    IF agent_id \notin DOMAIN AgentsTable THEN "Agent not found"
    ELSE IF user_account_id # AgentsTable[agent_id] THEN "Access denied to agent"
    ELSE "ok"

\* get_user_account_id, then verify_thread_access when the operation checks
\* the thread, then verify_agent_access when it checks the agent; the first
\* failure raises
Verify(account_id, thread_id, agent_id, check_thread, check_agent) ==
    LET t == IF account_id # "None" /\ check_thread
             THEN verify_thread_access(thread_id, account_id) ELSE "ok"
        a == IF account_id # "None" /\ t = "ok" /\ check_agent
             THEN verify_agent_access(agent_id, account_id) ELSE "ok"
    IN  [error |-> IF account_id = "None" THEN "No account found for user"
                   ELSE IF t # "ok" THEN t ELSE a,
         log |-> (IF account_id # "None" /\ check_thread THEN <<"threads">> ELSE <<>>)
                 \o (IF account_id # "None" /\ t = "ok" /\ check_agent
                     THEN <<"agents">> ELSE <<>>)]

ThreadRow(id, thread_id, account_id) ==
    [id |-> id, table |-> "thread_knowledge_base", account_id |-> account_id,
     thread_id |-> thread_id, is_active |-> TRUE, source_type |-> "manual"]

ThreadRows(thread_id) ==
    {e \in kb : e.table = "thread_knowledge_base" /\ e.thread_id = thread_id}

\* the record of a finished call
SvcDone(op, account_id, thread_id, agent_id, v, accesses, error) ==
    [pc |-> "done", op |-> op, account_id |-> account_id, thread_id |-> thread_id,
     agent_id |-> agent_id,
     log |-> v.log \o (IF v.error = "ok" THEN accesses ELSE <<>>),
     error |-> IF v.error # "ok" THEN v.error ELSE error,
     kb_before |-> kb, jobs_before |-> jobs]

SvcAccounts == Accounts \cup {"None"}

\* get_thread_knowledge_base
SvcGetThread ==
    /\ svc.pc = "idle"
    /\ \E account_id \in SvcAccounts, thread_id \in ThreadIds :
          LET v == Verify(account_id, thread_id, "None", TRUE, FALSE)
          IN  svc' = SvcDone("get_thread_knowledge_base", account_id, thread_id, "None",
                             v, <<"thread_knowledge_base">>, "ok")
    /\ UNCHANGED <<pipevars, purevars, kbvars, vecvars, rel, embvars, doc, upl, lst>>

\* create_thread_knowledge_base_entry
SvcCreateThread ==
    /\ svc.pc = "idle"
    /\ Cardinality(kb) < MaxEntries
    /\ \E account_id \in SvcAccounts, thread_id \in ThreadIds,
          insert \in {"ok", "nodata"} :
          LET v == Verify(account_id, thread_id, "None", TRUE, FALSE)
              stored == v.error = "ok" /\ insert = "ok"
          IN  /\ svc' = SvcDone("create_thread_knowledge_base_entry", account_id,
                                thread_id, "None", v, <<"thread_knowledge_base">>,
                                IF insert = "ok" THEN "ok"
                                ELSE "Failed to create thread knowledge base entry")
              /\ kb' = IF stored
                       THEN kb \cup {ThreadRow(nextId, thread_id, ThreadsTable[thread_id])}
                       ELSE kb
              /\ nextId' = IF stored THEN nextId + 1 ELSE nextId
    /\ UNCHANGED <<jobs, run, bg, del, purevars, kbvars, vecvars, rel, embvars, doc, upl, lst>>

\* update_thread_knowledge_base_entry (is_active in the update data) and
\* delete_thread_knowledge_base_entry: the entry is looked up by id and
\* thread, then written by id
SvcWriteThread ==
    /\ svc.pc = "idle"
    /\ \E op \in {"update_thread_knowledge_base_entry",
                   "delete_thread_knowledge_base_entry"},
          account_id \in SvcAccounts, thread_id \in ThreadIds,
          entry_id \in 1..MaxEntries, is_active \in BOOLEAN :
          LET v == Verify(account_id, thread_id, "None", TRUE, FALSE)
              found == {e \in ThreadRows(thread_id) : e.id = entry_id}
              writes == v.error = "ok" /\ found # {}
          IN  /\ svc' = SvcDone(op, account_id, thread_id, "None", v,
                                IF found = {}
                                THEN <<"thread_knowledge_base">>
                                ELSE <<"thread_knowledge_base", "thread_knowledge_base">>,
                                IF found = {}
                                THEN "Thread knowledge base entry not found" ELSE "ok")
              /\ kb' = IF ~writes THEN kb
                       ELSE IF op = "delete_thread_knowledge_base_entry"
                       THEN kb \ found
                       ELSE (kb \ found)
                                \cup {[e EXCEPT !.is_active = is_active] : e \in found}
    /\ UNCHANGED <<jobs, nextId, run, bg, del, purevars, kbvars, vecvars, rel, embvars, doc,
                   upl, lst>>

\* get_thread_knowledge_base_context and
\* get_combined_knowledge_base_context: the context is read by a stored
\* procedure after the checks
SvcContext ==
    /\ svc.pc = "idle"
    /\ \E account_id \in SvcAccounts, thread_id \in ThreadIds,
          agent_id \in AgentIds \cup {"None"} :
          LET op == IF agent_id = "None"
                    THEN "get_thread_knowledge_base_context"
                    ELSE "get_combined_knowledge_base_context"
              v == Verify(account_id, thread_id, agent_id, TRUE, agent_id # "None")
          IN  svc' = SvcDone(op, account_id, thread_id, agent_id, v,
                             <<"thread_knowledge_base">>, "ok")
    /\ UNCHANGED <<pipevars, purevars, kbvars, vecvars, rel, embvars, doc, upl, lst>>

\* upload_document: the thread and the agent are checked when given, then
\* the pending job is inserted
SvcUpload ==
    /\ svc.pc = "idle"
    /\ Len(jobs) < MaxUploads
    /\ \E account_id \in SvcAccounts, thread_id \in ThreadIds \cup {"None"},
          agent_id \in AgentIds \cup {"None"}, insert \in {"ok", "raise"} :
          LET v == Verify(account_id, thread_id, agent_id,
                          thread_id # "None", agent_id # "None")
          IN  /\ svc' = SvcDone("upload_document", account_id, thread_id, agent_id, v,
                                <<"document_processing_queue">>,
                                IF insert = "ok" THEN "ok"
                                ELSE "Knowledge base table not available")
              /\ jobs' = IF v.error = "ok" /\ insert = "ok"
                         THEN Append(jobs, [table |-> "document_processing_queue",
                                            status |-> "pending",
                                            error_message |-> "None"])
                         ELSE jobs
    /\ UNCHANGED <<kb, nextId, run, bg, del, purevars, kbvars, vecvars, rel, embvars, doc,
                   upl, lst>>

\* query_knowledge_base: the checks, then a fixed answer
SvcQuery ==
    /\ svc.pc = "idle"
    /\ \E account_id \in SvcAccounts, thread_id \in ThreadIds \cup {"None"},
          agent_id \in AgentIds \cup {"None"} :
          LET v == Verify(account_id, thread_id, agent_id,
                          thread_id # "None", agent_id # "None")
          IN  svc' = SvcDone("query_knowledge_base", account_id, thread_id, agent_id,
                             v, <<>>, "ok")
    /\ UNCHANGED <<pipevars, purevars, kbvars, vecvars, rel, embvars, doc, upl, lst>>

SvcReturn ==
    /\ svc.pc = "done"
    /\ svc' = Idle
    /\ UNCHANGED <<pipevars, purevars, kbvars, vecvars, rel, embvars, doc, upl, lst>>

NextService ==
    \/ SvcGetThread
    \/ SvcCreateThread
    \/ SvcWriteThread
    \/ SvcContext
    \/ SvcUpload
    \/ SvcQuery
    \/ SvcReturn

SpecService == Init /\ [][NextService]_vars

(***************************************************************************)
(* Properties of the normalizer and of the word chunker.                   *)
(***************************************************************************)
ChunkWords == SplitWs(chunker.text)

\* first chunk whole, later chunks without their first `overlap` words
RECURSIVE DropOverlaps(_, _)
DropOverlaps(chunks, overlap) ==
    IF chunks = <<>> THEN <<>>
    ELSE Drop(SplitWs(chunks[1].text), overlap) \o DropOverlaps(Tail(chunks), overlap)

Reconstructed(chunks, overlap) ==
    IF chunks = <<>> THEN <<>>
    ELSE SplitWs(chunks[1].text) \o DropOverlaps(Tail(chunks), overlap)

\* C5: with overlap < chunk_size, the first chunk followed by every later
\* chunk without its first `overlap` words is exactly the word sequence of
\* the text.
C5_ReconstructExact ==
    (chunker.pc = "done" /\ chunker.overlap < chunker.chunk_size)
        => Reconstructed(chunker.chunks, chunker.overlap) = ChunkWords

\* C6: with overlap < chunk_size and more than one chunk, consecutive chunks
\* have strictly increasing start offsets and chunk k+1 starts exactly
\* `overlap` words before the end of chunk k.
C6_OverlapOffsets ==
    (chunker.pc = "done" /\ chunker.overlap < chunker.chunk_size
        /\ Len(chunker.chunks) > 1)
        => \A k \in 1..(Len(chunker.chunks) - 1) :
              /\ chunker.chunks[k].start_word < chunker.chunks[k + 1].start_word
              /\ chunker.chunks[k + 1].start_word
                    = chunker.chunks[k].end_word - chunker.overlap + 1

\* C7: every emitted chunk carries absolute indices into the word sequence
\* of the text: its text is the space-joined words[start_word..end_word],
\* word_count = end_word - start_word + 1 and
\* 0 <= start_word <= end_word < number of words.
C7_AbsoluteIndices ==
    chunker.pc = "done"
        => \A k \in 1..Len(chunker.chunks) :
              LET c == chunker.chunks[k]
              IN  /\ 0 <= c.start_word
                  /\ c.start_word <= c.end_word
                  /\ c.end_word < Len(ChunkWords)
                  /\ c.word_count = c.end_word - c.start_word + 1
                  /\ c.text = Join(SubSeq(ChunkWords, c.start_word + 1,
                                          c.end_word + 1), <<" ">>)

\* a run with overlap seeding: three chunks, the later ones starting inside
\* the text and sharing a word with their predecessor
C7_Witness ==
    /\ chunker.pc = "done"
    /\ chunker.overlap > 0
    /\ Len(chunker.chunks) >= 3
    /\ chunker.chunks[2].start_word > 0
    /\ chunker.chunks[3].start_word <= chunker.chunks[2].end_word

\* C8: the normalizer is idempotent: cleaning cleaned text changes nothing.
C8_CleanIdempotent ==
    cleaner.pc = "done" => cleaner.twice = cleaner.once

\* a text the normalizer really changed, cleaned a second time
C8_Witness ==
    /\ cleaner.pc = "done"
    /\ cleaner.once # <<>>
    /\ cleaner.once # cleaner.text
    /\ Len(SplitOn(cleaner.once, "\n")) > 1

(***************************************************************************)
(* Properties of the ingestion pipeline, the jobs and the deletion.        *)
(***************************************************************************)
\* the entries in the store that an ingestion with this job id wrote
EntriesOfJob(queue_id) ==
    {e \in kb : e.source_type = "file_upload"
                  /\ e.source_metadata.queue_id = queue_id}

\* C1: when store_document has returned, its job is completed only if at
\* least one chunk was persisted, and with zero chunks persisted the status
\* store_document set on the job is failed and the caller got a failure
\* result.
C1_CompletedOnlyIfStored ==
    (run.pc = "done" /\ run.queue_id # 0)
        => /\ (jobs[run.queue_id].status = "completed"
                  => Len(run.stored_chunks) >= 1)
           /\ (Len(run.stored_chunks) = 0
                  => run.status_set = "failed" /\ ~run.result.success)

StatusStep(old, new) ==
    \/ new = old
    \/ old = "pending" /\ new = "processing"
    \/ old = "processing" /\ new \in {"completed", "failed"}

\* C2: a job's status only moves pending -> processing -> completed or
\* failed: a new job starts pending or processing, nothing leaves completed
\* or failed, and completed or failed is entered from processing only.
C2_StatusOrder ==
    [][\A j \in 1..Len(jobs') :
          IF j > Len(jobs)
          THEN jobs'[j].status \in {"pending", "processing"}
          ELSE StatusStep(jobs[j].status, jobs'[j].status)]_vars

DocumentEntries(entries, scope, filename) ==
    {e \in ScopeRows(entries, scope.account_id, scope.kb_type,
                     scope.thread_id, scope.agent_id) :
        /\ e.source_type = "file_upload"
        /\ e.source_metadata.original_filename = filename}

\* C4: a successful delete_document_chunks removes exactly the file-upload
\* entries of the scope whose original_filename is the given filename and
\* returns their number as chunks_deleted.
C4_DeleteExact ==
    (del.pc = "done" /\ del.result.success)
        => /\ del.after = del.before \ DocumentEntries(del.before, del.scope, del.filename)
           /\ del.result.chunks_deleted
                 = Cardinality(DocumentEntries(del.before, del.scope, del.filename))

(***************************************************************************)
(* Properties of the similarity search.                                    *)
(***************************************************************************)
\* the score of a candidate that passes the filter of the search
Qualifies(c) ==
    /\ c.embedding # NoEmbedding
    /\ Similarity[srch.query_embedding][c.embedding] >= srch.similarity_threshold

\* C9: the search returns at most max_results entries, each with a score of
\* at least the threshold, in non-increasing order of score, and leaves out
\* no qualifying candidate that scores strictly higher than a returned one.
C9_SearchRanked ==
    srch.pc = "done"
        => /\ Len(srch.result) <= srch.max_results
           /\ \A k \in 1..Len(srch.result) :
                 srch.result[k].similarity_score >= srch.similarity_threshold
           /\ \A k \in 1..(Len(srch.result) - 1) :
                 srch.result[k].similarity_score >= srch.result[k + 1].similarity_score
           /\ srch.query_embedding # NoEmbedding
                 => \A i \in 1..Len(srch.data) : \A k \in 1..Len(srch.result) :
                       (/\ Qualifies(srch.data[i])
                        /\ Similarity[srch.query_embedding][srch.data[i].embedding]
                              > srch.result[k].similarity_score)
                           => \E m \in 1..Len(srch.result) :
                                 srch.result[m].chunk = srch.data[i]

\* two qualifying candidates with different scores, returned by the store
\* lower score first, and room for one result only
C9_Witness ==
    /\ srch.pc = "done"
    /\ Len(srch.data) = 2
    /\ srch.max_results = 1
    /\ Len(srch.result) = 1
    /\ Qualifies(srch.data[1])
    /\ Qualifies(srch.data[2])
    /\ srch.result[1].chunk = srch.data[2]
    /\ srch.result[1].similarity_score
          > Similarity[srch.query_embedding][srch.data[1].embedding]

\* C10: every returned entry is of the requested tier and of the requested
\* account, and of the requested thread when the tier is thread.
C10_SearchScoped ==
    srch.pc = "done"
        => \A k \in 1..Len(srch.result) :
              LET c == srch.result[k].chunk
              IN  /\ c.kb_type = srch.kb_type
                  /\ c.account_id = srch.account_id
                  /\ (srch.kb_type = "thread" => c.thread_id = srch.thread_id)

(***************************************************************************)
(* Properties of is_query_relevant.                                        *)
(***************************************************************************)
\* the similarities of the candidates of the scope that have an embedding
CandidateScores ==
    {Similarity[rel.query_embedding][rel.data[i].embedding] :
        i \in {j \in 1..Len(rel.data) : rel.data[j].embedding # NoEmbedding}}

BestScore == CHOOSE m \in CandidateScores : \A x \in CandidateScores : x <= m

\* C11: when the query has an embedding and the scope has a scored
\* candidate, is_query_relevant returns (score >= relevance_threshold, score)
\* with score the highest similarity of any candidate of the scope; when no
\* candidate reaches the threshold the search result is empty and the pair
\* is (false, best score found).
C11_RelevantBestScore ==
    (rel.pc = "done" /\ rel.query_embedding # NoEmbedding /\ CandidateScores # {})
        => /\ rel.result = <<BestScore >= rel.relevance_threshold, BestScore>>
           /\ (BestScore < rel.relevance_threshold => rel.relevant_chunks = <<>>)

(***************************************************************************)
(* Properties of the embedder.                                             *)
(***************************************************************************)
\* C12: a generate_chunk_embeddings call that reaches the encode returns
\* (no exception escapes it) one result per input text, in input order; a
\* model failure on one text gives null for that text only and the vectors
\* of the others.
C12_BatchPerItem ==
    \A c \in 1..MaxCallers :
        (callers[c].pc \in {"done", "raised"}
            /\ callers[c].op = "generate_chunk_embeddings"
            /\ callers[c].encoded_with = "loaded") =>
            /\ callers[c].pc = "done"
            /\ Len(callers[c].result) = Len(callers[c].chunks)
            /\ \A i \in 1..Len(callers[c].chunks) :
                  callers[c].result[i] =
                      IF i = callers[c].fail THEN NoEmbedding
                      ELSE Encode(callers[c].chunks[i])

\* C13: the model is constructed at most once, and every encode ran with
\* the constructed model.
C13_ModelOnce ==
    /\ built <= 1
    /\ \A c \in 1..MaxCallers :
          (callers[c].pc \in {"done", "db"} /\ callers[c].encoded_with # "nothing")
              => callers[c].encoded_with = "loaded"

\* two coroutines are in a call at once, one constructed the model and the
\* other found it
C13_Witness ==
    /\ built = 1
    /\ \E c1, c2 \in 1..MaxCallers :
          /\ callers[c1].pc = "db" /\ callers[c1].initialized
          /\ callers[c2].pc = "done" /\ ~callers[c2].initialized
          /\ callers[c2].encoded_with = "loaded"

(***************************************************************************)
(* Properties of process_document.                                          *)
(***************************************************************************)
NoTextError == "No text content could be extracted"

ExtractorRaised ==
    /\ doc.pc = "done"
    /\ doc.outcome = "raise"

\* process_document returns a result and not an exception, and the result is
\* success with a text that is not blank or the explicit failure
NeverRaises ==
    doc.pc = "done" =>
        /\ ~doc.raw.raises
        /\ \/ doc.result.success /\ Strip(doc.raw.text) # <<>>
              /\ doc.result.total_chunks > 0
           \/ ~doc.result.success /\ doc.result.error = NoTextError

UnknownTypeFallback ==
    (doc.pc = "done" /\ doc.mime_type \notin supported_formats)
        => doc.raw.text = DecodeUtf8Ignore(doc.file_content)

PdfRead ==
    /\ doc.pc = "done"
    /\ doc.mime_type = PDF
    /\ doc.available
    /\ doc.outcome = "ok"

\* the 1-based numbers of the pages that yielded a text that is not blank
YieldingPages ==
    SelectSeq([i \in 1..Len(doc.pages) |-> i],
              LAMBDA i : ~doc.pages[i].raises /\ Strip(doc.pages[i].text) # <<>>)

\* C20: _extract_pdf_text returns the texts of exactly the pages that
\* yielded text (not raised, not empty), in page order, each under the label
\* of its own 1-based page number; a page that raises or is empty does not
\* fail the document: with at least one yielding page the processing
\* succeeds.
C20_PdfPages ==
    PdfRead =>
        /\ ~doc.raw.raises
        /\ doc.raw.text =
              Join([k \in 1..Len(YieldingPages) |->
                        PageText(YieldingPages[k] - 1, doc.pages[YieldingPages[k]].text)],
                   <<"\n", "\n">>)
        /\ YieldingPages # <<>> => doc.result.success

\* page 2 raises, pages 1 and 3 yield text, the document is processed
C20_Witness ==
    /\ PdfRead
    /\ Len(doc.pages) = 3
    /\ doc.pages[2].raises
    /\ YieldingPages = <<1, 3>>
    /\ doc.result.success

(***************************************************************************)
(* Properties of the upload endpoints.                                     *)
(***************************************************************************)
\* C15: an upload_document request that is otherwise valid (feature on,
\* size within the limit, user and account found, insert succeeds) is
\* accepted exactly when its declared MIME type is one of the nine
\* supported types, and a request of any other type creates no job and
\* starts no extraction.
C15_NineTypesAccepted ==
    (upl.pc = "done" /\ upl.endpoint = "upload_document") =>
        /\ (upl.valid /\ upl.size <= max_size)
              => (upl.job_created <=> upl.content_type \in supported_formats)
        /\ upl.content_type \notin supported_formats
              => (~upl.job_created /\ ~upl.extraction_started)

\* C16: on both upload endpoints a file larger than 50 MiB creates no job
\* and starts no extraction, and an otherwise valid request (here of a PDF)
\* with a file of exactly 50 MiB is accepted.
C16_SizeLimit ==
    upl.pc = "done" =>
        /\ upl.size > 50 * 1024 * 1024
              => (~upl.job_created /\ ~upl.extraction_started)
        /\ (upl.valid /\ upl.content_type = PDF /\ upl.size = 50 * 1024 * 1024)
              => upl.job_created

(***************************************************************************)
(* Properties of the listing of the global tier.                           *)
(***************************************************************************)
\* C18: a listing of the global tier, by the service or by GET /global,
\* returns only entries whose account_id is the caller's account, on the
\* stored-procedure path and on the direct-query path, also when no
\* account id was found for the caller.
C18_ListOwnEntries ==
    lst.pc = "done" => \A e \in lst.entries : e.account_id = lst.caller

(***************************************************************************)
(* Properties of the scoped operations of KnowledgeBaseService.            *)
(***************************************************************************)
KbTables == {"global_knowledge_base", "thread_knowledge_base",
             "agent_knowledge_base_entries", "document_processing_queue",
             "agent_kb_file_processing_jobs"}

\* the call names a thread or an agent that does not exist or belongs to
\* another account than the caller's
NamesForeignScope ==
    /\ svc.pc = "done"
    /\ svc.account_id # "None"
    /\ \/ /\ svc.thread_id # "None"
          /\ (svc.thread_id \in DOMAIN ThreadsTable
                  => ThreadsTable[svc.thread_id] # svc.account_id)
       \/ /\ svc.agent_id # "None"
          /\ (svc.agent_id \in DOMAIN AgentsTable
                  => AgentsTable[svc.agent_id] # svc.account_id)

\* C17: an operation that names a thread or agent that does not exist or is
\* owned by another account ends with a not-found or denied error, touches
\* no entry collection and no job collection, leaves both unchanged, and
\* makes each access check once.
C17_ForeignScopeDenied ==
    NamesForeignScope =>
        /\ svc.error \in {"Thread not found", "Access denied to thread",
                          "Agent not found", "Access denied to agent"}
        /\ \A i \in 1..Len(svc.log) : svc.log[i] \notin KbTables
        /\ kb = svc.kb_before
        /\ jobs = svc.jobs_before
        /\ Len(SelectSeq(svc.log, LAMBDA t : t = "threads")) <= 1
        /\ Len(SelectSeq(svc.log, LAMBDA t : t = "agents")) <= 1

\* an upload that names a thread of the caller and an agent of another
\* account is denied after both checks, with entries in the store
C17_Witness ==
    /\ NamesForeignScope
    /\ svc.op = "upload_document"
    /\ svc.log = <<"threads", "agents">>
    /\ svc.error = "Access denied to agent"
    /\ kb # {}

(***************************************************************************)
(* Properties of the entries store_document writes.                        *)
(***************************************************************************)
\* C19: every entry of the store is a file_upload entry whose chunk_index is
\* in [0, total_chunks); the entries of the ingestion under way carry its
\* filename, the number of its chunks and the zero-based position of their
\* chunk, have pairwise distinct chunk_index values, and are in the
\* collection of the requested tier with the account and the thread or
\* agent id of the request.
C19_EntryMetadata ==
    /\ \A e \in kb :
          /\ e.source_type = "file_upload"
          /\ e.source_metadata.chunk_index \in 0..(e.source_metadata.total_chunks - 1)
    /\ run.pc \in {"insert", "status", "done"} =>
          LET chunks == run.processing_result.chunks
          IN  /\ \A e \in EntriesOfJob(run.queue_id) :
                    /\ e.source_metadata.original_filename = run.filename
                    /\ e.source_metadata.total_chunks = Len(chunks)
                    /\ e.content = chunks[e.source_metadata.chunk_index + 1].text
                    /\ e.table = CASE run.kb_type = "global" -> "global_knowledge_base"
                                   [] run.kb_type = "thread" -> "thread_knowledge_base"
                                   [] run.kb_type = "agent" -> "agent_knowledge_base_entries"
                                   [] OTHER -> "no collection"
                    /\ e.account_id = run.account_id
                    /\ run.kb_type = "thread" => e.thread_id = run.thread_id
                    /\ run.kb_type = "agent" => e.agent_id = run.agent_id
              /\ \A e1, e2 \in EntriesOfJob(run.queue_id) :
                    e1.source_metadata.chunk_index = e2.source_metadata.chunk_index
                        => e1 = e2

\* both chunks of a two-chunk document were stored in the thread tier
C19_Witness ==
    /\ run.pc = "done"
    /\ run.kb_type = "thread"
    /\ run.processing_result.total_chunks = 2
    /\ {e.source_metadata.chunk_index : e \in EntriesOfJob(run.queue_id)} = {0, 1}

(***************************************************************************)
(* Claims about the end of an ingestion run, chunk sizes and ranking.      *)
(***************************************************************************)
\* C21: when store_document has returned, the job it created is no longer in
\* processing: it is completed or failed, also when the write of the final
\* status failed.
C21_JobLeavesProcessing ==
    (run.pc = "done" /\ run.queue_id # 0)
        => jobs[run.queue_id].status \in {"completed", "failed"}

\* C22: with overlap < chunk_size, every chunk _chunk_text emits has a text of
\* at most chunk_size characters, the chunks that start with re-seeded
\* overlap words included.
C22_ChunkWithinBudget ==
    (chunker.pc = "done" /\ chunker.overlap < chunker.chunk_size)
        => \A k \in 1..Len(chunker.chunks) :
              Len(chunker.chunks[k].text) <= chunker.chunk_size

\* C23: two returned entries with the same similarity score are in the order
\* of their creation times, the more recently created first, whatever the
\* order in which the store returned the rows.
C23_TiesByRecency ==
    srch.pc = "done"
        => \A k, m \in 1..Len(srch.result) :
              (k < m /\ srch.result[k].similarity_score = srch.result[m].similarity_score)
                  => srch.result[k].chunk.created_at >= srch.result[m].chunk.created_at

(***************************************************************************)
(* SpecKb: process_document_for_kb with its result, on documents of one    *)
(* and of two chunks.                                                      *)
(***************************************************************************)
Repeat(c, n) == [i \in 1..n |-> c]

\* a short document and one of chunk_size + 1 characters (two windows)
KbContents == {<<"a">>, Repeat("a", ChunkDocSize + 1)}

\* the text the model is given for a chunk
ModelText(chunk) == IF Len(chunk) = 1 THEN "x" ELSE "y"

\* the records built from zip(chunks, embeddings): the chunks whose
\* embedding is not None
ChunkRecords(rows, scope, chunks, embeddings) ==
    {[id |-> Cardinality(rows) + i,
      created_at |-> Cardinality(rows) + i,
      kb_type |-> scope.kb_type,
      account_id |-> scope.account_id,
      thread_id |-> scope.thread_id,
      chunk_index |-> i - 1,
      chunk_text |-> chunks[i],
      embedding |-> embeddings[i]] :
        i \in {j \in 1..Len(chunks) : embeddings[j] # NoEmbedding}}

\* process_document_for_kb: chunk, embed the batch (encode raising on text
\* number fail, 0 for none), insert the records in one write; an exception
\* of initialize_model or of the insert goes to the outer handler
KbProcess ==
    /\ proc.pc = "idle"
    /\ Cardinality(document_chunks) < MaxRows
    /\ \E scope \in VecScopes, content \in KbContents,
          init \in (IF model = "None" THEN {"ok", "raise"} ELSE {"ok"}),
          insert \in {"ok", "raise"} :
          LET chunks == chunk_document(content, ChunkDocSize, ChunkDocOverlap)
          IN  \E fail \in 0..Len(chunks) :
                LET embeddings ==
                        generate_chunk_embeddings(
                            [i \in 1..Len(chunks) |-> ModelText(chunks[i])], fail)
                    chunk_records ==
                        ChunkRecords(document_chunks, scope, chunks, embeddings)
                    exception ==
                        IF init = "raise" THEN "initialize_model"
                        ELSE IF chunk_records # {} /\ insert = "raise" THEN "insert"
                        ELSE "None"
                IN  /\ model' = IF init = "ok" THEN "loaded" ELSE model
                    /\ built' = IF model = "None" /\ init = "ok"
                                THEN built + 1 ELSE built
                    /\ document_chunks' = IF exception = "None"
                                          THEN document_chunks \cup chunk_records
                                          ELSE document_chunks
                    /\ proc' = [pc |-> "done", scope |-> scope,
                                chunks |-> chunks, fail |-> fail,
                                embeddings |-> IF init = "ok" THEN embeddings ELSE <<>>,
                                exception |-> exception,
                                inserted |-> IF exception = "None"
                                             THEN chunk_records ELSE {},
                                result |->
                                    IF exception = "None"
                                    THEN [success |-> TRUE, error |-> "None",
                                          chunks_created |-> Cardinality(chunk_records),
                                          total_chunks |-> Len(chunks)]
                                    ELSE [success |-> FALSE, error |-> "str(e)",
                                          chunks_created |-> 0,
                                          total_chunks |-> 0]]
    /\ UNCHANGED <<srch, loop, callers, rel, doc, upl, reqvars, kws, win,
                   pipevars, purevars>>

KbReturn ==
    /\ proc.pc = "done"
    /\ proc' = Idle
    /\ UNCHANGED <<document_chunks, srch, embvars, rel, doc, upl, reqvars, kws, win,
                   pipevars, purevars>>

NextKb == KbProcess \/ KbReturn

SpecKb == Init /\ [][NextKb]_vars

\* C24: when process_document_for_kb has returned without an exception of
\* the model construction or of the insert, no chunk with a null embedding
\* was persisted while every chunk whose own encoding did not fail was, the
\* result is a success with chunks_created = records inserted,
\* total_chunks = chunks produced and chunks_created <= total_chunks.
C24_PartialEmbeddingStored ==
    (proc.pc = "done" /\ proc.exception = "None")
        => /\ \A r \in document_chunks : r.embedding # NoEmbedding
           /\ \A i \in 1..Len(proc.chunks) :
                 i # proc.fail => \E r \in proc.inserted : r.chunk_index = i - 1
           /\ proc.result.success
           /\ proc.result.chunks_created = Cardinality(proc.inserted)
           /\ proc.result.total_chunks = Len(proc.chunks)
           /\ proc.result.chunks_created <= proc.result.total_chunks

\* the parts of C24 that do not rest on the batch encoding
C24_CountsAndNulls ==
    (proc.pc = "done" /\ proc.exception = "None")
        => /\ \A r \in document_chunks : r.embedding # NoEmbedding
           /\ \A i \in 1..Len(proc.chunks) :
                 proc.embeddings[i] # NoEmbedding
                     => \E r \in proc.inserted : r.chunk_index = i - 1
           /\ proc.result.success
           /\ proc.result.chunks_created = Cardinality(proc.inserted)
           /\ proc.result.total_chunks = Len(proc.chunks)
           /\ proc.result.chunks_created <= proc.result.total_chunks

(***************************************************************************)
(* SpecKeyword: search_documents, the keyword search over the stored       *)
(* chunk entries (document_storage.py).                                    *)
(***************************************************************************)
MaxKwRows == 2
MaxLimit == 1

KwContents == {<<"a">>, <<"A", " ", "b">>, <<"b">>}
KwQueries == {<<"a">>, <<"A", " ", "b">>, <<"B">>}
KwScopes == {s \in Scopes : s.kb_type # "notes"}

\* str.lower()
LowerChar(c) == CASE c = "A" -> "a" [] c = "B" -> "b" [] OTHER -> c
Lower(s) == [i \in 1..Len(s) |-> LowerChar(s[i])]

\* a chunk entry as _store_document_chunks inserted it for a one-chunk
\* document of the scope
KwRow(id, scope, content) ==
    ChunkRow(id, [kb_type |-> scope.kb_type, account_id |-> scope.account_id,
                  thread_id |-> scope.thread_id, agent_id |-> scope.agent_id,
                  filename |-> "f1", queue_id |-> 1,
                  processing_result |-> [chunks |-> <<[text |-> content]>>]], 0)

\* the rows a query of get_document_chunks matches, before order and limit
MatchingRows(rows, account_id, kb_type, thread_id, agent_id) ==
    {r \in rows :
        /\ r.table = TableOf(kb_type)
        /\ r.account_id = account_id
        /\ (kb_type = "thread" => r.thread_id = thread_id)
        /\ (kb_type = "agent" => r.agent_id = agent_id)
        /\ r.source_type = "file_upload"
        /\ r.is_active}

\* order('created_at', desc=True): ids are given in the order of creation
RECURSIVE NewestFirst(_)
NewestFirst(S) ==
    IF S = {} THEN <<>>
    ELSE LET r == CHOOSE x \in S : \A y \in S : y.id <= x.id
         IN  <<r>> \o NewestFirst(S \ {r})

\* the chunk get_document_chunks makes of a row
FormatChunk(chunk_data) ==
    [chunk_id |-> chunk_data.id,
     content |-> chunk_data.content,
     filename |-> chunk_data.source_metadata.original_filename,
     chunk_index |-> chunk_data.source_metadata.chunk_index,
     total_chunks |-> chunk_data.source_metadata.total_chunks,
     created_at |-> chunk_data.id]

\* get_document_chunks: the `limit` most recently created matching rows
get_document_chunks(rows, account_id, kb_type, thread_id, agent_id, limit) ==
    IF TableOf(kb_type) = "None" THEN <<>>
    ELSE LET data == Take(NewestFirst(MatchingRows(rows, account_id, kb_type,
                                                   thread_id, agent_id)), limit)
         IN  [i \in 1..Len(data) |-> FormatChunk(data[i])]

\* the tiers read by search_documents, in the order of the code
AllChunks(rows, account_id, kb_type, thread_id, agent_id, limit) ==
    (IF kb_type \in {"all", "global"}
     THEN get_document_chunks(rows, account_id, "global", "None", "None", limit)
     ELSE <<>>)
    \o (IF kb_type \in {"all", "thread"} /\ thread_id # "None"
        THEN get_document_chunks(rows, account_id, "thread", thread_id, "None", limit)
        ELSE <<>>)
    \o (IF kb_type \in {"all", "agent"} /\ agent_id # "None"
        THEN get_document_chunks(rows, account_id, "agent", "None", agent_id, limit)
        ELSE <<>>)

\* the loop over query_terms: 1 for a term that occurs in the lowered
\* content, and 2 more when that term is the whole lowered query
RECURSIVE TermScore(_, _, _)
TermScore(query_terms, content_lower, query_lower) ==
    IF query_terms = <<>> THEN 0
    ELSE (IF Contains(content_lower, query_terms[1])
          THEN 1 + (IF query_terms[1] = query_lower THEN 2 ELSE 0)
          ELSE 0)
         + TermScore(Tail(query_terms), content_lower, query_lower)

RelevanceScore(content, query) ==
    TermScore(SplitWs(Lower(query)), Lower(content), Lower(query))

\* the chunks with a positive score, in the order they were read
RECURSIVE ScoredChunks(_, _)
ScoredChunks(all_chunks, query) ==
    IF all_chunks = <<>> THEN <<>>
    ELSE LET chunk == all_chunks[1]
             score == RelevanceScore(chunk.content, query)
             rest == ScoredChunks(Tail(all_chunks), query)
         IN  IF score > 0
             THEN <<[chunk |-> chunk, relevance_score |-> score]>> \o rest
             ELSE rest

\* list.sort(key=relevance_score, reverse=True): stable, descending
RECURSIVE SortByRelevance(_)
SortByRelevance(s) ==
    IF s = <<>> THEN <<>>
    ELSE LET rest == SortByRelevance(Tail(s))
             before == SelectSeq(rest, LAMBDA x : x.relevance_score > s[1].relevance_score)
             after == SelectSeq(rest, LAMBDA x : x.relevance_score <= s[1].relevance_score)
         IN  before \o <<s[1]>> \o after

search_documents(rows, account_id, query, kb_type, thread_id, agent_id, limit) ==
    LET all_chunks == AllChunks(rows, account_id, kb_type, thread_id, agent_id, limit)
        scored_chunks == SortByRelevance(ScoredChunks(all_chunks, query))
    IN  [success |-> TRUE,
         total_chunks_found |-> Len(scored_chunks),
         top_results |-> Take(scored_chunks, limit)]

\* a chunk of an uploaded document is stored
KwStore ==
    /\ kws.pc = "idle"
    /\ Cardinality(kb) < MaxKwRows
    /\ \E scope \in KwScopes, content \in KwContents :
          kb' = kb \cup {KwRow(nextId, scope, content)}
    /\ nextId' = nextId + 1
    /\ UNCHANGED <<jobs, run, bg, del, purevars, vecvars, rel, embvars, doc, upl,
                   reqvars, proc, kws, win>>

SearchDocuments ==
    /\ kws.pc = "idle"
    /\ \E account_id \in Accounts, query \in KwQueries,
          kb_type \in {"all", "global", "thread", "agent"},
          thread_id \in {"None", "t1"}, agent_id \in {"None", "g1"},
          limit \in 1..MaxLimit :
          kws' = [pc |-> "done", account_id |-> account_id, query |-> query,
                  kb_type |-> kb_type, thread_id |-> thread_id,
                  agent_id |-> agent_id, limit |-> limit,
                  result |-> search_documents(kb, account_id, query, kb_type,
                                              thread_id, agent_id, limit)]
    /\ UNCHANGED <<pipevars, purevars, vecvars, rel, embvars, doc, upl, reqvars,
                   proc, win>>

SearchDocumentsReturn ==
    /\ kws.pc = "done"
    /\ kws' = Idle
    /\ UNCHANGED <<pipevars, purevars, vecvars, rel, embvars, doc, upl, reqvars,
                   proc, win>>

NextKeyword == KwStore \/ SearchDocuments \/ SearchDocumentsReturn

SpecKeyword == Init /\ [][NextKeyword]_vars

\* the chunk entries of the scope a keyword search names
KwScopeRows ==
    {r \in kb :
        /\ r.account_id = kws.account_id
        /\ r.source_type = "file_upload"
        /\ r.is_active
        /\ \/ kws.kb_type \in {"all", "global"} /\ r.table = "global_knowledge_base"
           \/ /\ kws.kb_type \in {"all", "thread"} /\ kws.thread_id # "None"
              /\ r.table = "thread_knowledge_base" /\ r.thread_id = kws.thread_id
           \/ /\ kws.kb_type \in {"all", "agent"} /\ kws.agent_id # "None"
              /\ r.table = "agent_knowledge_base_entries"
              /\ r.agent_id = kws.agent_id}

\* C25: search_documents returns at most `limit` chunks, each with its score
\* (the number of query terms occurring in the content without regard to
\* case, plus 2 for a term that is the whole query) and a positive one, in
\* non-increasing order of score, and leaves out no chunk of the scope that
\* scores strictly higher than a returned chunk.
C25_KeywordRanked ==
    kws.pc = "done"
        => LET top == kws.result.top_results
           IN  /\ Len(top) <= kws.limit
               /\ \A k \in 1..Len(top) :
                     /\ top[k].relevance_score
                           = RelevanceScore(top[k].chunk.content, kws.query)
                     /\ top[k].relevance_score > 0
               /\ \A k \in 1..(Len(top) - 1) :
                     top[k].relevance_score >= top[k + 1].relevance_score
               /\ \A r \in KwScopeRows : \A k \in 1..Len(top) :
                     RelevanceScore(r.content, kws.query) > top[k].relevance_score
                         => \E m \in 1..Len(top) : top[m].chunk.chunk_id = r.id

(***************************************************************************)
(* SpecWindow: chunk_document (vector_service.py) for any chunk_size and   *)
(* overlap with 0 <= overlap < chunk_size, one step per iteration of the   *)
(* while loop.                                                             *)
(***************************************************************************)
MaxWinLen == 6
MaxWinSize == 4
MaxWinIterations == 7

WinChars == {"a", ".", " "}

\* a slip: the overlap added instead of subtracted
NextStartForward(end, overlap) == end + overlap

\* start = end - overlap
NextStart(end, overlap) == end - overlap

InitWindow ==
    /\ win \in {[pc |-> "input", content |-> t, chunk_size |-> cs, overlap |-> ov,
                 start |-> 0, chunks |-> <<>>, windows |-> <<>>] :
                   t \in TextsUpTo(WinChars, MaxWinLen),
                   cs \in 1..MaxWinSize, ov \in 0..(MaxWinSize - 1)}
    /\ win.overlap < win.chunk_size
    /\ cleaner = Idle
    /\ chunker = Idle
    /\ jobs = <<>> /\ kb = {} /\ nextId = 1 /\ run = IdleRun /\ bg = <<>>
    /\ del = Idle /\ document_chunks = {} /\ srch = Idle /\ rel = Idle
    /\ model = "None" /\ built = 0 /\ loop = 0
    /\ callers = [c \in 1..MaxCallers |-> Idle]
    /\ doc = Idle /\ upl = Idle /\ lst = Idle /\ svc = Idle
    /\ proc = Idle /\ kws = Idle

\* if len(content) <= chunk_size: return [content]
WinEnter ==
    /\ win.pc = "input"
    /\ win' = IF Len(win.content) <= win.chunk_size
              THEN [win EXCEPT !.pc = "done", !.chunks = <<win.content>>]
              ELSE [win EXCEPT !.pc = "loop"]
    /\ UNCHANGED <<pipevars, purevars, vecvars, rel, embvars, doc, upl, reqvars,
                   proc, kws>>

\* one pass of `while start < len(content)`
WinIterate ==
    /\ win.pc = "loop"
    /\ Len(win.windows) < MaxWinIterations
    /\ win' =
         IF WindowRaises(win.content, win.start, win.chunk_size)
         THEN [win EXCEPT !.pc = "raised"]
         ELSE LET end == WindowEnd(win.content, win.start, win.chunk_size)
                  chunk == Strip(Slice(win.content, win.start, end))
                  start == NextStart(end, win.overlap)
              IN  [win EXCEPT
                      !.pc = IF start >= Len(win.content) THEN "done" ELSE "loop",
                      !.start = start,
                      !.chunks = IF chunk # <<>> THEN Append(@, chunk) ELSE @,
                      !.windows = Append(@, [start |-> win.start, end |-> end,
                                             chunk |-> chunk])]
    /\ UNCHANGED <<pipevars, purevars, vecvars, rel, embvars, doc, upl, reqvars,
                   proc, kws>>

NextWindow == WinEnter \/ WinIterate

SpecWindow == InitWindow /\ [][NextWindow]_vars

\* C26: every iteration of the loop of chunk_document moves the window start
\* forward, also when the end was snapped back to a sentence terminator, so
\* the loop terminates.
C26_StartMovesForward ==
    [][(win.pc = "loop" /\ win'.pc \in {"loop", "done"}) => win'.start > win.start]_vars

\* C30: when chunk_document has returned, a content of at most chunk_size
\* characters is the single chunk; otherwise the first window starts at 0,
\* each window starts at or before the end of the one before it, the last
\* window reaches the end of the content, and every non-whitespace character
\* lies in a window whose stripped text is one of the returned chunks.
C30_NoContentLost ==
    win.pc = "done"
        => IF Len(win.content) <= win.chunk_size
           THEN win.chunks = <<win.content>>
           ELSE LET w == win.windows
                    n == Len(w)
                IN  /\ n >= 1
                    /\ w[1].start = 0
                    /\ \A k \in 1..(n - 1) : w[k + 1].start <= w[k].end
                    /\ w[n].end >= Len(win.content)
                    /\ \A p \in 1..Len(win.content) :
                          ~IsWs(win.content[p])
                              => \E k \in 1..n :
                                    /\ w[k].start < p
                                    /\ p <= w[k].end
                                    /\ w[k].chunk =
                                          Strip(SubSeq(win.content, w[k].start + 1,
                                                       Min2(w[k].end, Len(win.content))))
                                    /\ \E m \in 1..Len(win.chunks) :
                                          win.chunks[m] = w[k].chunk

\* a returned run of three windows with a positive overlap, the first of
\* them cut after a sentence terminator
C30_Witness ==
    /\ win.pc = "done"
    /\ win.overlap > 0
    /\ Len(win.windows) = 3
    /\ Len(win.chunks) = 3
    /\ win.windows[1].end < win.windows[1].start + win.chunk_size

(***************************************************************************)
(* Properties of the result of process_document and of the job records.    *)
(***************************************************************************)
ConsistentResult(res) ==
    /\ res.success => /\ res.chunks # <<>>
                      /\ res.total_chunks = Len(res.chunks)
                      /\ res.total_chunks >= 1
    /\ ~res.success => /\ res.chunks = <<>>
                       /\ res.total_chunks = 0
                       /\ res.error # "None"

\* C27: a result of process_document is consistent: success comes with at
\* least one chunk and total_chunks = len(chunks), failure comes with no
\* chunk, total_chunks = 0 and an error; extracted text that is empty or
\* whitespace only gives a failure.
C27_ResultConsistent ==
    doc.pc = "done"
        => /\ ConsistentResult(doc.result)
           /\ (~doc.raw.raises /\ Strip(doc.raw.text) = <<>>) => ~doc.result.success

\* an extractor returned whitespace only and the result is a failure
C27_Witness ==
    /\ doc.pc = "done"
    /\ ~doc.raw.raises
    /\ doc.raw.text # <<>>
    /\ Strip(doc.raw.text) = <<>>
    /\ ~doc.result.success
    /\ doc.result.total_chunks = 0

\* the same consistency for the result store_document works on, where the
\* chunk size is small enough for several chunks
C27_PipelineResult ==
    run.pc # "idle" => ConsistentResult(run.processing_result)

\* C28: store_document writes a chunk entry only after it created the job
\* record: every step that adds entries is taken by a run that holds the id
\* of an existing job and gives that id to the entries, so a run whose
\* processing failed or whose job record could not be created adds no entry,
\* and every entry carries the id of an existing job record.
C28_JobBeforeEntries ==
    [][/\ \A e \in kb' :
             /\ e.source_metadata.queue_id \in 1..Len(jobs')
             /\ jobs'[e.source_metadata.queue_id].table = "document_processing_queue"
       /\ (kb' \ kb # {})
             => /\ run.queue_id \in 1..Len(jobs)
                /\ run.processing_result.success
                /\ \A e \in kb' \ kb : e.source_metadata.queue_id = run.queue_id]_vars

\* the job record could not be created: the run is over, nothing was stored
C28_Witness ==
    /\ run.pc = "done"
    /\ run.processing_result.success
    /\ run.queue_id = 0
    /\ run.result.error = "Failed to create processing queue entry"
    /\ run.stored_chunks = <<>>
    /\ kb = {}

\* C29: a job carries an error message only when its status is failed.
C29_ErrorOnlyOnFailed ==
    \A j \in 1..Len(jobs) :
        jobs[j].error_message # "None" => jobs[j].status = "failed"

====
